---------------------------- MODULE Spec2Model ----------------------------
(***************************************************************************)
(* The binary flight-log decoder of autel_logger.parser: the byte reader,  *)
(* the record track scanner (get_record_tracks), the record decoder        *)
(* (parse_record) and the orchestrator (parse_log_data), as one state      *)
(* machine that parses one input buffer.                                   *)
(*                                                                         *)
(* Values.  A byte buffer is a sequence over 0..255, python offset o being *)
(* element o+1.  A python int is a Nat; a u64 is the record [lo, hi] of    *)
(* its two 32-bit halves (TLC's integers are 32 bits wide); a str is the   *)
(* sequence of its code points; a float is its IEEE bit pattern, tagged    *)
(* [f32 |-> u32] or [f64 |-> u64]; a list is a sequence.                   *)
(***************************************************************************)
EXTENDS Integers, Sequences, FiniteSets, TLC

(***************************************************************************)
(* types.py: the record schema registry and the field catalog.             *)
(***************************************************************************)
\* As HeadKeys, with firmware_info before firmware_size.
HeadKeys_info_first ==
  <<"aircraft_sn", "battery_sn", "location_name", "drone_type", "distance",
    "flight_time", "max_altitude", "video_time", "flight_at", "time_zone",
    "start_latitude", "start_longitude", "image_count", "video_count",
    "firmware_info", "firmware_size">>

HeadKeys ==
  <<"aircraft_sn", "battery_sn", "location_name", "drone_type", "distance",
    "flight_time", "max_altitude", "video_time", "flight_at", "time_zone",
    "start_latitude", "start_longitude", "image_count", "video_count",
    "firmware_size", "firmware_info">>

VideoKeys ==
  <<"media_filename", "media_timestamp", "latitude", "longitude", "duration">>

ImageKeys ==
  <<"media_filename", "media_timestamp", "latitude", "longitude">>

InBaseKeys ==
  <<"current_time", "drone_altitude", "x_speed", "y_speed", "z_speed",
    "gimbal_pitch", "gimbal_roll", "gimbal_yaw", "drone_pitch", "drone_roll",
    "drone_yaw", "m_left_horizontal", "m_left_vertical",
    "m_right_horizontal", "m_right_vertical", "rc_mode_state",
    "offline_duration", "rc_button_state", "phone_heading",
    "radar_info_timestamp", "front_radar_info", "rear_radar_info",
    "left_radar_info", "right_radar_info", "top_radar_info",
    "bottom_radar_info", "param_1", "param_2">>

InFullKeys ==
  <<"current_time", "drone_altitude", "x_speed", "y_speed", "z_speed",
    "gimbal_pitch", "gimbal_roll", "gimbal_yaw", "drone_pitch", "drone_roll",
    "drone_yaw", "m_left_horizontal", "m_left_vertical",
    "m_right_horizontal", "m_right_vertical", "rc_mode_state",
    "offline_duration", "rc_button_state", "phone_heading",
    "radar_info_timestamp", "front_radar_info", "rear_radar_info",
    "left_radar_info", "right_radar_info", "top_radar_info",
    "bottom_radar_info", "flight_mode", "camera_mode", "rcRSSI", "m_mode",
    "drone_warning", "drone_ext_warning", "gimbal_warning", "time_left",
    "design_volume", "full_charge_volume", "current_electricity",
    "current_voltage", "current_current", "remain_power_percent",
    "battery_temperature", "battery_state", "number_of_discharges",
    "cell_count", "cell_voltages", "vision_warning", "vision_ext_warning",
    "vision_error_code", "max_flight_altitude", "go_home_altitude",
    "beginner_mode_enable", "low_battery_warning_threshold",
    "serious_battery_warning_threshold", "max_flight_radius",
    "max_flight_horizontal_speed", "obstacle_avoidance_enabled",
    "radar_enabled", "max_error", "param_1", "param_2", "param_3", "param_4",
    "param_5">>

OutBaseKeys ==
  <<"current_time", "drone_latitude", "drone_longitude", "drone_altitude",
    "x_speed", "y_speed", "z_speed", "gimbal_pitch", "gimbal_roll",
    "gimbal_yaw", "drone_pitch", "drone_roll", "drone_yaw",
    "m_left_horizontal", "m_left_vertical", "m_right_horizontal",
    "m_right_vertical", "rc_mode_state", "offline_duration",
    "rc_button_state", "phone_heading", "radar_info_timestamp",
    "front_radar_info", "rear_radar_info", "left_radar_info",
    "right_radar_info", "top_radar_info", "bottom_radar_info", "param_1",
    "param_2">>

OutFullKeys ==
  <<"current_time", "drone_latitude", "drone_longitude", "drone_altitude",
    "x_speed", "y_speed", "z_speed", "gimbal_pitch", "gimbal_roll",
    "gimbal_yaw", "drone_pitch", "drone_roll", "drone_yaw",
    "m_left_horizontal", "m_left_vertical", "m_right_horizontal",
    "m_right_vertical", "rc_mode_state", "offline_duration",
    "rc_button_state", "phone_heading", "radar_info_timestamp",
    "front_radar_info", "rear_radar_info", "left_radar_info",
    "right_radar_info", "top_radar_info", "bottom_radar_info", "flight_mode",
    "camera_mode", "gps_signal_level", "rcRSSI", "m_mode", "home_latitude",
    "home_longitude", "distance_from_home", "current_journey",
    "drone_warning", "drone_ext_warning", "gimbal_warning", "time_left",
    "back_time", "satellite_count", "design_volume", "full_charge_volume",
    "current_electricity", "current_voltage", "current_current",
    "remain_power_percent", "battery_temperature", "battery_state",
    "number_of_discharges", "cell_count", "cell_voltages", "vision_warning",
    "vision_ext_warning", "vision_error_code", "max_flight_altitude",
    "go_home_altitude", "beginner_mode_enable",
    "low_battery_warning_threshold", "serious_battery_warning_threshold",
    "max_flight_radius", "max_flight_horizontal_speed",
    "obstacle_avoidance_enabled", "radar_enabled", "max_error", "param_1",
    "param_2", "param_3", "param_4", "param_5">>

RECORD_SIZES ==
  [aircraft_sn |-> 18, battery_sn |-> 32, location_name |-> 64,
   drone_type |-> 1, distance |-> 4, flight_time |-> 4, max_altitude |-> 4,
   video_time |-> 4, flight_at |-> 8, time_zone |-> 4, start_latitude |-> 4,
   start_longitude |-> 4, image_count |-> 2, video_count |-> 2,
   firmware_size |-> 2, firmware_info |-> -1, current_time |-> 4,
   drone_altitude |-> 4, x_speed |-> 4, y_speed |-> 4, z_speed |-> 4,
   gimbal_pitch |-> 4, gimbal_roll |-> 4, gimbal_yaw |-> 4,
   drone_pitch |-> 4, drone_roll |-> 4, drone_yaw |-> 4,
   m_left_horizontal |-> 2, m_left_vertical |-> 2, m_right_horizontal |-> 2,
   m_right_vertical |-> 2, rc_mode_state |-> 1, offline_duration |-> 4,
   rc_button_state |-> 1, phone_heading |-> 8, radar_info_timestamp |-> 8,
   front_radar_info |-> 4, rear_radar_info |-> 4, left_radar_info |-> 4,
   right_radar_info |-> 4, top_radar_info |-> 4, bottom_radar_info |-> 4,
   param_1 |-> 4, param_2 |-> 4, flight_mode |-> 1, camera_mode |-> 1,
   rcRSSI |-> 1, m_mode |-> 1, drone_warning |-> 4, drone_ext_warning |-> 4,
   gimbal_warning |-> 4, time_left |-> 4, design_volume |-> 4,
   full_charge_volume |-> 4, current_electricity |-> 4,
   current_voltage |-> 4, current_current |-> 4, remain_power_percent |-> 1,
   battery_temperature |-> 4, battery_state |-> 1,
   number_of_discharges |-> 4, cell_count |-> 1, cell_voltages |-> 32,
   vision_warning |-> 4, vision_ext_warning |-> 4, vision_error_code |-> 4,
   max_flight_altitude |-> 4, go_home_altitude |-> 4,
   beginner_mode_enable |-> 1, low_battery_warning_threshold |-> 1,
   serious_battery_warning_threshold |-> 1, max_flight_radius |-> 4,
   max_flight_horizontal_speed |-> 4, obstacle_avoidance_enabled |-> 1,
   radar_enabled |-> 1, max_error |-> 4, param_3 |-> 4, param_4 |-> 4,
   param_5 |-> 4, media_filename |-> 64, media_timestamp |-> 8,
   latitude |-> 4, longitude |-> 4, duration |-> 4, drone_latitude |-> 4,
   drone_longitude |-> 4, gps_signal_level |-> 1, home_latitude |-> 4,
   home_longitude |-> 4, distance_from_home |-> 4, current_journey |-> 4,
   back_time |-> 4, satellite_count |-> 1]

RECORD_FORMATS ==
  [flight_time |-> "i", time_zone |-> "i", media_timestamp |-> "i",
   current_time |-> "i", duration |-> "i", offline_duration |-> "i",
   phone_heading |-> "d", radar_info_timestamp |-> "d", back_time |-> "i",
   design_volume |-> "i", drone_ext_warning |-> "h", drone_warning |-> "h",
   full_charge_volume |-> "i", gimbal_warning |-> "h", max_error |-> "i",
   number_of_discharges |-> "i", vision_ext_warning |-> "h",
   vision_warning |-> "h", cell_voltages |-> "[f"]

RecordKeyMap ==
  [head |-> HeadKeys, video |-> VideoKeys, image |-> ImageKeys,
   in_base |-> InBaseKeys, in_full |-> InFullKeys,
   out_base |-> OutBaseKeys, out_full |-> OutFullKeys]

\* As RECORD_TYPE_MAP, without the entry of the head kind.
RECORD_TYPE_MAP_six ==
  (0 :> "out_full") @@ (1 :> "out_base") @@ (2 :> "in_full") @@
  (3 :> "in_base") @@ (15 :> "video") @@ (14 :> "image")

RECORD_TYPE_MAP ==
  (0 :> "out_full") @@ (1 :> "out_base") @@ (2 :> "in_full") @@
  (3 :> "in_base") @@ (6 :> "head") @@ (15 :> "video") @@ (14 :> "image")

\* RECORD_TYPE_MAP.values(), in the dict's insertion order.
RECORD_TYPE_VALUES ==
  <<"out_full", "out_base", "in_full", "in_base", "head", "video", "image">>

FlightRecordTypeNames == {"in_base", "in_full", "out_base", "out_full"}

(***************************************************************************)
(* Outcomes: a call either returns or raises.                              *)
(***************************************************************************)
Raise(e) == [ok |-> FALSE, error |-> e]

Return(v) == [ok |-> TRUE, value |-> v]

struct_error == [type |-> "struct.error"]

UnicodeDecodeError == [type |-> "UnicodeDecodeError"]

AssertionError == [type |-> "AssertionError"]

ValueError(what) == [type |-> "ValueError", what |-> what]

UnknownRecordTypeError(type_id, offset) ==
  [type |-> "UnknownRecordTypeError", type_id |-> type_id, offset |-> offset]

(***************************************************************************)
(* record_parser.py: the byte reader.  struct.unpack_from raises           *)
(* struct.error when the buffer holds fewer bytes than the format needs    *)
(* at the offset.                                                          *)
(***************************************************************************)
Fits(data, offset, n) == offset >= 0 /\ offset + n <= Len(data)

\* The big-endian unsigned value of the n <= 4 bytes at offset.
RECURSIVE BigEndian(_, _, _)
BigEndian(data, offset, n) ==
  IF n = 0 THEN 0
  ELSE data[offset + n] + 256 * BigEndian(data, offset, n - 1)

\* The little-endian unsigned value of the n <= 4 bytes at offset.
RECURSIVE LittleEndian(_, _, _)
LittleEndian(data, offset, n) ==
  IF n = 0 THEN 0
  ELSE data[offset + 1] + 256 * LittleEndian(data, offset + 1, n - 1)

read_uint8(data, offset) ==
  IF Fits(data, offset, 1) THEN Return(LittleEndian(data, offset, 1))
  ELSE Raise(struct_error)

read_uint16(data, offset) ==
  IF Fits(data, offset, 2) THEN Return(LittleEndian(data, offset, 2))
  ELSE Raise(struct_error)

read_uint32(data, offset) ==
  IF Fits(data, offset, 4) THEN Return(LittleEndian(data, offset, 4))
  ELSE Raise(struct_error)

read_uint64(data, offset) ==
  IF Fits(data, offset, 8)
  THEN Return([lo |-> LittleEndian(data, offset, 4),
               hi |-> LittleEndian(data, offset + 4, 4)])
  ELSE Raise(struct_error)

\* As read_float32, yielding 0.0 where the buffer ends before the value.
read_float32_default(data, offset) ==
  IF Fits(data, offset, 4)
  THEN Return([f32 |-> LittleEndian(data, offset, 4)])
  ELSE Return([f32 |-> 0])

read_float32(data, offset) ==
  IF Fits(data, offset, 4)
  THEN Return([f32 |-> LittleEndian(data, offset, 4)])
  ELSE Raise(struct_error)

read_float64(data, offset) ==
  IF Fits(data, offset, 8)
  THEN Return([f64 |-> [lo |-> LittleEndian(data, offset, 4),
                        hi |-> LittleEndian(data, offset + 4, 4)]])
  ELSE Raise(struct_error)

\* bytes.split(b'\x00', 1)[0]: the bytes before the first null byte.
SplitAtNull(b) ==
  LET nulls == {i \in 1..Len(b) : b[i] = 0}
  IN IF nulls = {} THEN b
     ELSE SubSeq(b, 1, (CHOOSE i \in nulls : \A j \in nulls : i <= j) - 1)

IsCont(b, i) == i <= Len(b) /\ b[i] >= 128 /\ b[i] <= 191

\* The length of the UTF-8 form a start byte announces; 0 for a byte that
\* starts none (a continuation byte, 0xC0, 0xC1, 0xF5 and above).
Utf8Length(c) ==
  IF c < 128 THEN 1
  ELSE IF c >= 194 /\ c <= 223 THEN 2
  ELSE IF c >= 224 /\ c <= 239 THEN 3
  ELSE IF c >= 240 /\ c <= 244 THEN 4
  ELSE 0

\* The form that starts at b[i] is well formed: its continuation bytes are
\* there and no more follow, it is not overlong, no surrogate, and at most
\* U+10FFFF.
Utf8Valid(b, i) ==
  LET c == b[i]
      n == Utf8Length(c)
  IN /\ n > 0
     /\ \A j \in 1..(n - 1) : IsCont(b, i + j)
     /\ ~IsCont(b, i + n)
     /\ (c = 224 => b[i + 1] >= 160)
     /\ (c = 237 => b[i + 1] <= 159)
     /\ (c = 240 => b[i + 1] >= 144)
     /\ (c = 244 => b[i + 1] <= 143)

Utf8CodePoint(b, i) ==
  LET c == b[i]
      n == Utf8Length(c)
  IN IF n = 1 THEN c
     ELSE IF n = 2 THEN (c - 192) * 64 + (b[i + 1] - 128)
     ELSE IF n = 3
       THEN (c - 224) * 4096 + (b[i + 1] - 128) * 64 + (b[i + 2] - 128)
     ELSE (c - 240) * 262144 + (b[i + 1] - 128) * 4096
          + (b[i + 2] - 128) * 64 + (b[i + 3] - 128)

\* bytes.decode('utf-8'), strict: the code points, or UnicodeDecodeError.
\* UTF-8 synchronises itself: a form starts at every byte that is not a
\* continuation byte, and the input is valid when each such form is.
Utf8Decode(b) ==
  LET starts == SelectSeq([i \in 1..Len(b) |-> i], LAMBDA i : ~IsCont(b, i))
  IN IF \/ b # <<>> /\ IsCont(b, 1)
        \/ \E k \in 1..Len(starts) : ~Utf8Valid(b, starts[k])
     THEN Raise(UnicodeDecodeError)
     ELSE Return([k \in 1..Len(starts) |-> Utf8CodePoint(b, starts[k])])

\* As read_string, keeping the null byte and what follows it.
read_string_whole(data, offset, length) ==
  IF length >= 0 /\ Fits(data, offset, length)
  THEN Utf8Decode(SubSeq(data, offset + 1, offset + length))
  ELSE Raise(struct_error)

read_string(data, offset, length) ==
  IF length >= 0 /\ Fits(data, offset, length)
  THEN Utf8Decode(SplitAtNull(SubSeq(data, offset + 1, offset + length)))
  ELSE Raise(struct_error)

(***************************************************************************)
(* record_parser.py: the record decoder.                                   *)
(***************************************************************************)
HexDigit(d) == IF d < 10 THEN 48 + d ELSE 87 + d

RECURSIVE HexDigits(_)
HexDigits(n) ==
  IF n < 16 THEN <<HexDigit(n)>>
  ELSE HexDigits(n \div 16) \o <<HexDigit(n % 16)>>

\* The builtin hex(): "0x" and the digits, without leading zeros.
hex(n) == <<48, 120>> \o HexDigits(n)

\* [read_float32(data, offset + i * 4) for i in range(count)]
RECURSIVE read_float32_list(_, _, _, _)
read_float32_list(data, offset, i, count) ==
  IF i = count THEN Return(<<>>)
  ELSE LET r == read_float32(data, offset + i * 4)
       IN IF ~r.ok THEN r
          ELSE LET rest == read_float32_list(data, offset, i + 1, count)
               IN IF rest.ok THEN Return(<<r.value>> \o rest.value) ELSE rest

\* As parse_record_item, taking no notice of the format "d" of a key of
\* size 8: every such key is read as an unsigned integer.
parse_record_item_u64(data, offset, record_type, key) ==
  LET size == RECORD_SIZES[key]
      fmt == IF key \in DOMAIN RECORD_FORMATS THEN RECORD_FORMATS[key]
             ELSE "None"
      r == IF size = 1 THEN read_uint8(data, offset)
           ELSE IF size = 2 THEN read_uint16(data, offset)
           ELSE IF size = 4
             THEN IF fmt = "None" THEN read_float32(data, offset)
                  ELSE IF fmt = "h"
                    THEN LET u == read_uint32(data, offset)
                         IN IF u.ok THEN Return(hex(u.value)) ELSE u
                  ELSE read_uint32(data, offset)
           ELSE IF size = 8 THEN read_uint64(data, offset)
           ELSE IF fmt = "None" THEN read_string(data, offset, size)
           ELSE IF fmt # "[f" THEN Raise(AssertionError)
           ELSE read_float32_list(data, offset, 0, size \div 4)
  IN IF size = 0 THEN Raise(ValueError("size 0"))
     ELSE IF ~r.ok THEN r
     ELSE [ok |-> TRUE, value |-> r.value, size |-> size,
           new_offset |-> offset + size]

\* Returns (value, size, offset + size), here a record, or raises.
parse_record_item(data, offset, record_type, key) ==
  LET size == RECORD_SIZES[key]
      fmt == IF key \in DOMAIN RECORD_FORMATS THEN RECORD_FORMATS[key]
             ELSE "None"
      r == IF size = 1 THEN read_uint8(data, offset)
           ELSE IF size = 2 THEN read_uint16(data, offset)
           ELSE IF size = 4
             THEN IF fmt = "None" THEN read_float32(data, offset)
                  ELSE IF fmt = "h"
                    THEN LET u == read_uint32(data, offset)
                         IN IF u.ok THEN Return(hex(u.value)) ELSE u
                  ELSE read_uint32(data, offset)
           ELSE IF size = 8
             THEN IF fmt = "None" \/ fmt = "i" THEN read_uint64(data, offset)
                  ELSE read_float64(data, offset)
           ELSE IF fmt = "None" THEN read_string(data, offset, size)
           ELSE IF fmt # "[f" THEN Raise(AssertionError)
           ELSE read_float32_list(data, offset, 0, size \div 4)
  IN IF size = 0 THEN Raise(ValueError("size 0"))
     ELSE IF ~r.ok THEN r
     ELSE [ok |-> TRUE, value |-> r.value, size |-> size,
           new_offset |-> offset + size]

\* result[key] = value
SetItem(result, key, value) ==
  [k \in DOMAIN result \cup {key} |-> IF k = key THEN value ELSE result[k]]

\* As parse_record_key, asserting size > 0 where the code asserts size > 1.
parse_record_key_positive(data, record_type, key, st) ==
  LET result == st.value
      offset == st.offset
  IN
  IF key = "firmware_info"
  THEN IF record_type # "head" THEN Raise(AssertionError)
       ELSE LET size == result["firmware_size"] IN
         IF ~(size > 0) THEN Raise(AssertionError)
         ELSE LET s == read_string(data, offset, size) IN
           IF ~s.ok THEN s
           ELSE [ok |-> TRUE, value |-> SetItem(result, key, s.value),
                 offset |-> offset + size]
  ELSE LET item == parse_record_item(data, offset, record_type, key) IN
    IF ~item.ok THEN item
    ELSE IF /\ record_type \in FlightRecordTypeNames
            /\ key = "current_time"
            /\ "current_time" \in DOMAIN result
            /\ result["current_time"] # item.value
      THEN [ok |-> TRUE,
            value |-> IF result["current_time"] > item.value
                      THEN SetItem(result, "current_time", item.value)
                      ELSE result,
            offset |-> item.new_offset]
      ELSE [ok |-> TRUE, value |-> SetItem(result, key, item.value),
            offset |-> item.new_offset]

\* One turn of parse_record's loop, for `key`, from the loop's state st:
\* the result so far and the running offset.  The next state, or raises.
parse_record_key(data, record_type, key, st) ==
  LET result == st.value
      offset == st.offset
  IN
  IF key = "firmware_info"
  THEN IF record_type # "head" THEN Raise(AssertionError)
       ELSE LET size == result["firmware_size"] IN
         IF ~(size > 1) THEN Raise(AssertionError)
         ELSE LET s == read_string(data, offset, size) IN
           IF ~s.ok THEN s
           ELSE [ok |-> TRUE, value |-> SetItem(result, key, s.value),
                 offset |-> offset + size]
  ELSE LET item == parse_record_item(data, offset, record_type, key) IN
    IF ~item.ok THEN item
    ELSE IF /\ record_type \in FlightRecordTypeNames
            /\ key = "current_time"
            /\ "current_time" \in DOMAIN result
            /\ result["current_time"] # item.value
      THEN [ok |-> TRUE,
            value |-> IF result["current_time"] > item.value
                      THEN SetItem(result, "current_time", item.value)
                      ELSE result,
            offset |-> item.new_offset]
      ELSE [ok |-> TRUE, value |-> SetItem(result, key, item.value),
            offset |-> item.new_offset]

\* `for key in keys`, over keys[lo..hi] in order, from the loop's state st;
\* the first turn that raises ends the loop.  (The range is halved rather
\* than walked so that the evaluation stays shallow.)
RECURSIVE parse_record_keys(_, _, _, _, _, _)
parse_record_keys(data, record_type, keys, lo, hi, st) ==
  IF ~st.ok \/ lo > hi THEN st
  ELSE IF lo = hi THEN parse_record_key(data, record_type, keys[lo], st)
  ELSE LET mid == (lo + hi) \div 2
       IN parse_record_keys(data, record_type, keys, mid + 1, hi,
            parse_record_keys(data, record_type, keys, lo, mid, st))

\* As parse_record, leaving out the last key of every kind but head.
parse_record_short(data, record_type, offset) ==
  LET keys == RecordKeyMap[record_type]
      n == IF record_type = "head" THEN Len(keys) ELSE Len(keys) - 1
  IN parse_record_keys(data, record_type, keys, 1, n,
                       [ok |-> TRUE, value |-> <<>>, offset |-> offset])

\* Returns (result, offset), here a record, or raises.
parse_record(data, record_type, offset) ==
  LET keys == RecordKeyMap[record_type]
  IN parse_record_keys(data, record_type, keys, 1, Len(keys),
                       [ok |-> TRUE, value |-> <<>>, offset |-> offset])

\* As get_total_record_size, leaving the kind's last field out of the sum.
get_total_record_size_short(record_type) ==
  LET keys == RecordKeyMap[record_type]
      Sum[i \in 0..Len(keys)] ==
        IF i = 0 THEN 0 ELSE Sum[i - 1] + RECORD_SIZES[keys[i]]
  IN Sum[Len(keys) - 1]

\* The sizes of the catalog are all nonzero, so the ValueError of line 163
\* is never raised.
get_total_record_size(record_type) ==
  LET keys == RecordKeyMap[record_type]
      Sum[i \in 0..Len(keys)] ==
        IF i = 0 THEN 0 ELSE Sum[i - 1] + RECORD_SIZES[keys[i]]
  IN Sum[Len(keys)]

\* As get_record_type_from_offset, resynchronising on an unknown tag: it
\* skips the byte and takes the next one for the tag.
get_record_type_from_offset_resync(data, offset) ==
  LET type_id == read_uint8(data, offset)
      next_id == read_uint8(data, offset + 1)
  IN IF ~type_id.ok THEN type_id
     ELSE IF type_id.value \in DOMAIN RECORD_TYPE_MAP
       THEN Return(RECORD_TYPE_MAP[type_id.value])
     ELSE IF next_id.ok /\ next_id.value \in DOMAIN RECORD_TYPE_MAP
       THEN Return(RECORD_TYPE_MAP[next_id.value])
     ELSE Raise(UnknownRecordTypeError(type_id.value, offset))

get_record_type_from_offset(data, offset) ==
  LET type_id == read_uint8(data, offset) IN
    IF ~type_id.ok THEN type_id
    ELSE IF type_id.value \notin DOMAIN RECORD_TYPE_MAP
      THEN Raise(UnknownRecordTypeError(type_id.value, offset))
    ELSE Return(RECORD_TYPE_MAP[type_id.value])

(***************************************************************************)
(* Input buffers.  A buffer is laid out as the file format lays it out:    *)
(* an 8-byte magic tag, a 4-byte version, two bytes before the head record *)
(* (the head is decoded at offset 14), the head record with its            *)
(* firmware_info of firmware_size bytes, then tagged records, each built   *)
(* field by field from its kind's key list.  The last `cut` bytes are      *)
(* missing.                                                                *)
(***************************************************************************)
MaxRecs == 2

MaxCut == 1

Rep(b, n) == [i \in 1..n |-> b]

RECURSIVE Encode(_, _)
Encode(v, n) ==
  IF n = 0 THEN <<>> ELSE <<v % 256>> \o Encode(v \div 256, n - 1)

IsStringKey(key) ==
  RECORD_SIZES[key] \notin {1, 2, 4, 8} /\ key \notin DOMAIN RECORD_FORMATS

\* One field on the wire: string fields hold the byte p.s repeated, the
\* others the byte p.n repeated.
EncodeField(key, p) ==
  Rep(IF IsStringKey(key) THEN p.s ELSE p.n, RECORD_SIZES[key])

\* The fields keys[lo..hi] one after the other.
RECURSIVE EncodeFields(_, _, _, _)
EncodeFields(keys, lo, hi, p) ==
  IF lo > hi THEN <<>>
  ELSE IF lo = hi THEN EncodeField(keys[lo], p)
  ELSE LET mid == (lo + hi) \div 2
       IN EncodeFields(keys, lo, mid, p) \o EncodeFields(keys, mid + 1, hi, p)

\* The head record: its static fields, firmware_size, firmware_info.
EncodeHead(p) ==
  EncodeFields(HeadKeys, 1, Len(HeadKeys) - 2, p)
    \o Encode(p.firmware_size, 2) \o p.firmware_info

\* The body that follows a tag byte.  A body tagged as head takes the
\* number of bytes the head track states; an unknown tag has no body.
EncodeBody(tag, p) ==
  IF tag \notin DOMAIN RECORD_TYPE_MAP THEN <<>>
  ELSE IF RECORD_TYPE_MAP[tag] = "head"
    THEN Rep(p.n, get_total_record_size("head"))
  ELSE LET keys == RecordKeyMap[RECORD_TYPE_MAP[tag]]
       IN EncodeFields(keys, 1, Len(keys), p)

BadString(p) == [p EXCEPT !.s = 255]

\* Record i holds its own numeric byte, so that records of one kind differ.
Numbered(p, i) == [p EXCEPT !.n = @ + i - 1]

\* Records i.. of the body; the last one holds invalid UTF-8 when in.bad.
RECURSIVE EncodeRecords(_, _)
EncodeRecords(in, i) ==
  IF i > Len(in.tags) THEN <<>>
  ELSE <<in.tags[i]>>
         \o EncodeBody(in.tags[i],
              IF in.bad /\ i = Len(in.tags)
              THEN BadString(Numbered(in.profile, i))
              ELSE Numbered(in.profile, i))
         \o EncodeRecords(in, i + 1)

EncodeFile(in) ==
  in.magic \o in.version \o <<0, 6>> \o EncodeHead(in.profile)
    \o EncodeRecords(in, 1)

Buffer(in) ==
  LET full == EncodeFile(in)
  IN SubSeq(full, 1, IF in.cut >= Len(full) THEN 0 ELSE Len(full) - in.cut)

MAGIC == <<65, 85, 84, 69, 76, 95, 70, 82>>    \* 'AUTEL_FR'

Magics == {MAGIC, <<65, 85, 84, 69, 76, 95, 70, 88>>,
           <<65, 85, 84, 69, 76, 0, 70, 82>>}

Versions == {<<3, 0, 0, 0>>, <<2, 0, 0, 0>>, <<3, 1, 0, 0>>}

Profile(s, n, firmware_size, firmware_info) ==
  [s |-> s, n |-> n, firmware_size |-> firmware_size,
   firmware_info |-> firmware_info]

GoodProfiles ==
  {Profile(0, 0, 4, <<49, 46, 48, 0>>),
   Profile(65, 1, 5, <<49, 46, 48, 46, 50>>)}

HeadProfiles ==
  GoodProfiles \cup
  {Profile(65, 1, 0, <<>>), Profile(65, 1, 1, <<49>>),
   Profile(65, 1, 2, <<118, 0>>), Profile(255, 0, 4, <<49, 46, 48, 0>>)}

KnownTags == DOMAIN RECORD_TYPE_MAP

UnknownTags == {7, 255}

SeqsUpTo(S, n) == UNION {[1..k -> S] : k \in 0..n}

\* Preambles and heads of every sort, before at most one record; cut
\* nowhere, inside the preamble or inside the head.
HeadInputs ==
  {[magic |-> m, version |-> v, profile |-> p, tags |-> t, bad |-> FALSE,
    cut |-> c] :
     m \in Magics, v \in Versions, p \in HeadProfiles,
     t \in SeqsUpTo({3}, 1), c \in {0, 100, 165}}

\* Well-formed preambles and heads before up to MaxRecs records of any
\* tags; the last record whole, holding invalid UTF-8, or cut short by up
\* to MaxCut bytes or by its whole body.
BodyInputs ==
  UNION {
    {[magic |-> MAGIC, version |-> <<3, 0, 0, 0>>, profile |-> p,
      tags |-> t, bad |-> f.bad, cut |-> f.cut] :
        f \in {[bad |-> FALSE, cut |-> c] : c \in 0..MaxCut}
              \cup {[bad |-> TRUE, cut |-> 0]}
              \cup {[bad |-> FALSE, cut |-> Len(EncodeBody(t[Len(t)], p))]}}
    : p \in GoodProfiles,
      t \in SeqsUpTo(KnownTags \cup UnknownTags, MaxRecs) \ {<<>>}}

Inputs == HeadInputs \cup BodyInputs

(***************************************************************************)
(* parse_log_data as a state machine.                                      *)
(***************************************************************************)
VARIABLES
  input,          \* how the buffer was laid out (not read by the parser)
  data,           \* in_data: the buffer
  pc,             \* where parse_log_data is
  offset,         \* get_record_tracks: offset
  record_tracks,  \* get_record_tracks: record_tracks
  header,         \* parse_log_data: header
  records,        \* parse_log_data: records, without 'head'
  total_records,  \* parse_log_data: total_records
  todo,           \* the (record_type, offset) pairs the decode loop has left
  outcome,        \* what the call returned or raised
  calls           \* how often parse_record ran and a type tag was read,
                  \* and the (kind, offset) pairs parse_record ran on

parserVars == <<input, data, pc, offset, record_tracks, header, records,
                total_records, todo, outcome, calls>>

None == [none |-> TRUE]

(***************************************************************************)
(* The state of the other specifications of this module.  Each             *)
(* specification moves its own variables and leaves the others as they     *)
(* start.                                                                  *)
(***************************************************************************)
VARIABLES
  rd_data,        \* SpecReader: the buffer the byte reader is called on
  rd_call         \* SpecReader: the last call: function, offset, result

readerVars == <<rd_data, rd_call>>

ReaderIdle == rd_data = <<>> /\ rd_call = None

VARIABLES
  iinputs,        \* SpecInterleaved: how each call's buffer was laid out
  ibufs,          \* SpecInterleaved: each call's in_data
  frames,         \* SpecInterleaved: each call's local variables
  objects,        \* SpecInterleaved: the dicts of tracks, by identity
  interleaved     \* SpecInterleaved: a call has run between two steps of
                  \* another

interleavedVars == <<iinputs, ibufs, frames, objects, interleaved>>

InterleavedIdle ==
  /\ iinputs = None
  /\ ibufs = None
  /\ frames = None
  /\ objects = None
  /\ interleaved = FALSE

VARIABLES
  media_files,    \* SpecMedia: MediaCacheData.media_files
  files_by_path,  \* SpecMedia: MediaCacheData.files_by_path
  cache_file,     \* SpecMedia: what save_to_cache last wrote
  parse_calls,    \* SpecMedia: how often parse_file was called on each path
  m_pc,           \* SpecMedia: where the call of search is
  m_ignore_cache, \* SpecMedia: search: ignore_cache
  m_todo,         \* SpecMedia: search: what _iter_media_files has yet to yield
  m_results,      \* SpecMedia: search: results
  m_outcome       \* SpecMedia: what the last call returned or raised

mediaVars == <<media_files, files_by_path, cache_file, parse_calls, m_pc,
               m_ignore_cache, m_todo, m_results, m_outcome>>

MediaIdle ==
  /\ media_files = <<>>
  /\ files_by_path = <<>>
  /\ cache_file = None
  /\ parse_calls = None
  /\ m_pc = "idle"
  /\ m_ignore_cache = FALSE
  /\ m_todo = <<>>
  /\ m_results = <<>>
  /\ m_outcome = None

VARIABLES
  mr_parsed,      \* SpecModel: ParseResult.records, the decoded records
  mr_records,     \* SpecModel: ModelResult.records
  mr_request,     \* SpecModel: iter_records_by_type: record_types
  mr_outcome      \* SpecModel: what the iteration yielded or raised

modelVars == <<mr_parsed, mr_records, mr_request, mr_outcome>>

ModelIdle ==
  /\ mr_parsed = None
  /\ mr_records = None
  /\ mr_request = <<>>
  /\ mr_outcome = None

VARIABLES
  video_items,    \* SpecFlight: Flight.video_items
  fv_before,      \* SpecFlight: video_items as search_videos found them
  fv_listing,     \* SpecFlight: the files _iter_media_files yields
  fv_cache,       \* SpecFlight: search_videos: cache_data.media_files
  fv_cache_file,  \* SpecFlight: the cache file on disk
  fv_pc,          \* SpecFlight: where search_videos is
  fv_index,       \* SpecFlight: search_videos: the item the loop is at
  fv_changed,     \* SpecFlight: search_videos: changed
  fv_outcome      \* SpecFlight: what search_videos returned or raised

flightVars == <<video_items, fv_before, fv_listing, fv_cache, fv_cache_file,
                fv_pc, fv_index, fv_changed, fv_outcome>>

FlightIdle ==
  /\ video_items = <<>>
  /\ fv_before = <<>>
  /\ fv_listing = <<>>
  /\ fv_cache = <<>>
  /\ fv_cache_file = None
  /\ fv_pc = "idle"
  /\ fv_index = 0
  /\ fv_changed = FALSE
  /\ fv_outcome = None

VARIABLES
  video_search_paths,  \* SpecConfig: Config.video_search_paths
  image_search_paths,  \* SpecConfig: Config.image_search_paths
  config_file,         \* SpecConfig: what save last wrote
  cfg_saves,           \* SpecConfig: how often save ran
  cfg_call,            \* SpecConfig: the arguments of the last call
  cfg_outcome          \* SpecConfig: what the last call returned or raised

configVars == <<video_search_paths, image_search_paths, config_file,
                cfg_saves, cfg_call, cfg_outcome>>

ConfigIdle ==
  /\ video_search_paths = <<>>
  /\ image_search_paths = <<>>
  /\ config_file = None
  /\ cfg_saves = 0
  /\ cfg_call = None
  /\ cfg_outcome = None

ParserIdle ==
  /\ input = None
  /\ data = <<>>
  /\ pc = "idle"
  /\ offset = 0
  /\ record_tracks = None
  /\ header = None
  /\ records = None
  /\ total_records = 0
  /\ todo = <<>>
  /\ outcome = None
  /\ calls = None

vars == <<parserVars, readerVars, interleavedVars, mediaVars, modelVars,
          flightVars, configVars>>

\* The variables a specification leaves alone, and how they start.
others == <<readerVars, interleavedVars, mediaVars, modelVars,
    flightVars, configVars>>

OthersIdle ==
  ReaderIdle /\ InterleavedIdle /\ MediaIdle /\ ModelIdle
    /\ FlightIdle /\ ConfigIdle

notReader == <<parserVars, interleavedVars, mediaVars, modelVars,
    flightVars, configVars>>

NotReaderIdle ==
  ParserIdle /\ InterleavedIdle /\ MediaIdle /\ ModelIdle
    /\ FlightIdle /\ ConfigIdle

notInterleaved == <<parserVars, readerVars, mediaVars, modelVars,
    flightVars, configVars>>

NotInterleavedIdle ==
  ParserIdle /\ ReaderIdle /\ MediaIdle /\ ModelIdle
    /\ FlightIdle /\ ConfigIdle

notMedia == <<parserVars, readerVars, interleavedVars, modelVars,
    flightVars, configVars>>

NotMediaIdle ==
  ParserIdle /\ ReaderIdle /\ InterleavedIdle /\ ModelIdle
    /\ FlightIdle /\ ConfigIdle

notModel == <<parserVars, readerVars, interleavedVars, mediaVars,
    flightVars, configVars>>

NotModelIdle ==
  ParserIdle /\ ReaderIdle /\ InterleavedIdle /\ MediaIdle
    /\ FlightIdle /\ ConfigIdle

notFlight == <<parserVars, readerVars, interleavedVars, mediaVars, modelVars,
    configVars>>

NotFlightIdle ==
  ParserIdle /\ ReaderIdle /\ InterleavedIdle /\ MediaIdle /\ ModelIdle
    /\ ConfigIdle

notConfig == <<parserVars, readerVars, interleavedVars, mediaVars, modelVars,
    flightVars>>

NotConfigIdle ==
  ParserIdle /\ ReaderIdle /\ InterleavedIdle /\ MediaIdle /\ ModelIdle
    /\ FlightIdle

Pending == [state |-> "pending"]

Raised(e) == [state |-> "raised", error |-> e]

Returned(v) == [state |-> "returned", value |-> v]

FILENAME == <<102, 46, 108, 111, 103>>    \* 'f.log'

Init ==
  /\ input \in Inputs
  /\ data = Buffer(input)
  /\ pc = "parse_log_data"
  /\ offset = 0
  /\ record_tracks = None
  /\ header = None
  /\ records = None
  /\ total_records = 0
  /\ todo = <<>>
  /\ outcome = Pending
  /\ calls = [parse_record |-> 0, read_tag |-> 0, decoded |-> <<>>]
  /\ OthersIdle

\* As check_preamble, without the check of the version.
check_preamble_any_version(in_data) ==
  LET magic == read_string(in_data, 0, 8)
      version == read_uint32(in_data, 8)
  IN IF ~magic.ok THEN magic
     ELSE IF ~version.ok THEN version
     ELSE IF magic.value # MAGIC THEN Raise(ValueError("Invalid magic"))
     ELSE Return(TRUE)

\* parse_log_data, lines 205-210: Return(TRUE), or what it raises.
check_preamble(in_data) ==
  LET magic == read_string(in_data, 0, 8)
      version == read_uint32(in_data, 8)
  IN IF ~magic.ok THEN magic
     ELSE IF ~version.ok THEN version
     ELSE IF magic.value # MAGIC THEN Raise(ValueError("Invalid magic"))
     ELSE IF version.value # 3 THEN Raise(ValueError("Unsupported version"))
     ELSE Return(TRUE)

Fail(e) ==
  /\ pc' = "raised"
  /\ outcome' = Raised(e)

ValidatePreamble ==
  /\ pc = "parse_log_data"
  /\ LET r == check_preamble(data)
     IN IF r.ok THEN pc' = "get_record_tracks" /\ outcome' = outcome
        ELSE Fail(r.error)
  /\ UNCHANGED <<input, data, offset, record_tracks, header, records,
                 total_records, todo, calls>>

HEAD_OFFSET == 14

NewTracks ==
  [key \in {RECORD_TYPE_VALUES[i] : i \in DOMAIN RECORD_TYPE_VALUES} |->
     [name |-> key, size |-> get_total_record_size(key), offsets |-> <<>>]]

Append_(tracks, record_type, off) ==
  [tracks EXCEPT ![record_type].offsets = Append(@, off)]

\* offset += record_track.size + 1
next_offset_no_tag(off, record_track) == off + record_track.size

next_offset(off, record_track) == off + record_track.size + 1

\* As ScanHead, seeding the head track with 12 while decoding at 14.
ScanHead_seed12 ==
  /\ pc = "get_record_tracks"
  /\ calls' = [calls EXCEPT !.parse_record = @ + 1,
                           !.decoded = Append(@, <<"head", HEAD_OFFSET>>)]
  /\ LET r == parse_record(data, "head", HEAD_OFFSET)
     IN IF r.ok
        THEN /\ offset' = r.offset
             /\ record_tracks' = Append_(NewTracks, "head", 12)
             /\ pc' = "scan"
             /\ outcome' = outcome
        ELSE Fail(r.error) /\ UNCHANGED <<offset, record_tracks>>
  /\ UNCHANGED <<input, data, header, records, total_records, todo>>

\* As ScanHead, starting the scan past a firmware_info of four bytes
\* whatever firmware_size holds.
ScanHead_fixed_firmware ==
  /\ pc = "get_record_tracks"
  /\ calls' = [calls EXCEPT !.parse_record = @ + 1,
                           !.decoded = Append(@, <<"head", HEAD_OFFSET>>)]
  /\ LET r == parse_record(data, "head", HEAD_OFFSET)
     IN IF r.ok
        THEN /\ offset' = HEAD_OFFSET + get_total_record_size("head") + 1 + 4
             /\ record_tracks' = Append_(NewTracks, "head", HEAD_OFFSET)
             /\ pc' = "scan"
             /\ outcome' = outcome
        ELSE Fail(r.error) /\ UNCHANGED <<offset, record_tracks>>
  /\ UNCHANGED <<input, data, header, records, total_records, todo>>

\* get_record_tracks, lines 175-183.
ScanHead ==
  /\ pc = "get_record_tracks"
  /\ calls' = [calls EXCEPT !.parse_record = @ + 1,
                           !.decoded = Append(@, <<"head", HEAD_OFFSET>>)]
  /\ LET r == parse_record(data, "head", HEAD_OFFSET)
     IN IF r.ok
        THEN /\ offset' = r.offset
             /\ record_tracks' = Append_(NewTracks, "head", HEAD_OFFSET)
             /\ pc' = "scan"
             /\ outcome' = outcome
        ELSE Fail(r.error) /\ UNCHANGED <<offset, record_tracks>>
  /\ UNCHANGED <<input, data, header, records, total_records, todo>>

\* get_record_tracks, lines 185-196: one turn of the while loop.
ScanStep ==
  /\ pc = "scan"
  /\ offset < Len(data)
  /\ calls' = [calls EXCEPT !.read_tag = @ + 1]
  /\ LET r == get_record_type_from_offset(data, offset)
     IN IF r.ok
        THEN /\ record_tracks' = Append_(record_tracks, r.value, offset)
             /\ offset' = next_offset(offset, record_tracks[r.value])
             /\ UNCHANGED <<pc, outcome>>
        ELSE Fail(r.error) /\ UNCHANGED <<offset, record_tracks>>
  /\ UNCHANGED <<input, data, header, records, total_records, todo>>

\* As DecodeOrder, walking each track from its last offset to its first.
RECURSIVE DecodeOrder_reversed(_, _)
DecodeOrder_reversed(tracks, i) ==
  IF i > Len(RECORD_TYPE_VALUES) THEN <<>>
  ELSE LET record_type == RECORD_TYPE_VALUES[i]
           offs == tracks[record_type].offsets
       IN (IF record_type = "head" THEN <<>>
           ELSE [j \in 1..Len(offs) |->
                   <<record_type, offs[Len(offs) + 1 - j]>>])
          \o DecodeOrder_reversed(tracks, i + 1)

\* The (record_type, offset) pairs in the order of
\* `for record_type, track in record_tracks.items(): for offset in ...`.
RECURSIVE DecodeOrder(_, _)
DecodeOrder(tracks, i) ==
  IF i > Len(RECORD_TYPE_VALUES) THEN <<>>
  ELSE LET record_type == RECORD_TYPE_VALUES[i]
           offs == tracks[record_type].offsets
       IN (IF record_type = "head" THEN <<>>
           ELSE [j \in 1..Len(offs) |-> <<record_type, offs[j]>>])
          \o DecodeOrder(tracks, i + 1)

\* get_record_tracks returns (line 197); parse_log_data, lines 213-224.
DecodeHeader ==
  /\ pc = "scan"
  /\ ~(offset < Len(data))
  /\ calls' = [calls EXCEPT !.parse_record = @ + 1,
                           !.decoded = Append(@, <<"head", record_tracks["head"].offsets[1]>>)]
  /\ LET header_offset == record_tracks["head"].offsets[1]
         r == parse_record(data, "head", header_offset)
     IN IF r.ok
        THEN /\ header' = r.value
             /\ records' = [k \in DOMAIN record_tracks \ {"head"} |-> <<>>]
             /\ total_records' = 0
             /\ todo' = DecodeOrder(record_tracks, 1)
             /\ pc' = "decode"
             /\ outcome' = outcome
        ELSE Fail(r.error) /\ UNCHANGED <<header, records, total_records, todo>>
  /\ UNCHANGED <<input, data, offset, record_tracks>>

\* As DecodeStep, catching what parse_record raises and going on to the
\* next offset.
DecodeStep_skip ==
  /\ pc = "decode"
  /\ todo # <<>>
  /\ calls' = [calls EXCEPT !.parse_record = @ + 1,
                           !.decoded = Append(@, <<todo[1][1], todo[1][2] + 1>>)]
  /\ LET record_type == todo[1][1]
         r == parse_record(data, record_type, todo[1][2] + 1)
     IN IF r.ok
        THEN /\ records' = [records EXCEPT ![record_type] = Append(@, r.value)]
             /\ total_records' = total_records + 1
        ELSE UNCHANGED <<records, total_records>>
  /\ todo' = Tail(todo)
  /\ UNCHANGED <<input, data, offset, record_tracks, header, pc, outcome>>

\* As DecodeStep, setting the list of the kind to the one record decoded
\* where the code appends to it.
DecodeStep_rebuild ==
  /\ pc = "decode"
  /\ todo # <<>>
  /\ calls' = [calls EXCEPT !.parse_record = @ + 1,
                           !.decoded = Append(@, <<todo[1][1], todo[1][2] + 1>>)]
  /\ LET record_type == todo[1][1]
         r == parse_record(data, record_type, todo[1][2] + 1)
     IN IF r.ok
        THEN /\ records' = [records EXCEPT ![record_type] = <<r.value>>]
             /\ total_records' = total_records + 1
             /\ todo' = Tail(todo)
             /\ UNCHANGED <<pc, outcome>>
        ELSE Fail(r.error) /\ UNCHANGED <<records, total_records, todo>>
  /\ UNCHANGED <<input, data, offset, record_tracks, header>>

\* parse_log_data, lines 225-231: one turn of the inner for loop.
DecodeStep ==
  /\ pc = "decode"
  /\ todo # <<>>
  /\ calls' = [calls EXCEPT !.parse_record = @ + 1,
                           !.decoded = Append(@, <<todo[1][1], todo[1][2] + 1>>)]
  /\ LET record_type == todo[1][1]
         r == parse_record(data, record_type, todo[1][2] + 1)
     IN IF r.ok
        THEN /\ records' = [records EXCEPT ![record_type] = Append(@, r.value)]
             /\ total_records' = total_records + 1
             /\ todo' = Tail(todo)
             /\ UNCHANGED <<pc, outcome>>
        ELSE Fail(r.error) /\ UNCHANGED <<records, total_records, todo>>
  /\ UNCHANGED <<input, data, offset, record_tracks, header>>

\* As ParseResult, counting the head record among the records.
ParseResult_counting_head ==
  [filename |-> FILENAME, header |-> header,
   records |-> [k \in DOMAIN records \cup {"head"} |->
                  IF k = "head" THEN header ELSE records[k]],
   record_tracks |-> record_tracks,
   total_records |-> total_records + Len(record_tracks["head"].offsets)]

ParseResult ==
  [filename |-> FILENAME, header |-> header,
   records |-> [k \in DOMAIN records \cup {"head"} |->
                  IF k = "head" THEN header ELSE records[k]],
   record_tracks |-> record_tracks, total_records |-> total_records]

\* parse_log_data, lines 232-238.
ReturnResult ==
  /\ pc = "decode"
  /\ todo = <<>>
  /\ pc' = "returned"
  /\ outcome' = Returned(ParseResult)
  /\ UNCHANGED <<input, data, offset, record_tracks, header, records,
                 total_records, todo, calls>>

Next ==
  \/ ValidatePreamble /\ UNCHANGED others
  \/ ScanHead /\ UNCHANGED others
  \/ ScanStep /\ UNCHANGED others
  \/ DecodeHeader /\ UNCHANGED others
  \/ DecodeStep /\ UNCHANGED others
  \/ ReturnResult /\ UNCHANGED others

Spec == Init /\ [][Next]_vars


(***************************************************************************)
(* What the layout of the input says about the buffer, for the properties  *)
(* below; none of it is read by the parser.                                *)
(***************************************************************************)
\* The preamble and the head record are as the format wants them.
WellFormedHead ==
  /\ input.magic = MAGIC
  /\ input.version = <<3, 0, 0, 0>>
  /\ input.profile \in GoodProfiles

\* The offset at which the layout put the tag byte of record i.
TagOffset(in, i) == Len(EncodeFile([in EXCEPT !.tags = SubSeq(@, 1, i - 1)]))

NonHeadTags == {t \in KnownTags : RECORD_TYPE_MAP[t] # "head"}

\* The tag offsets of the records of kind record_type, in stream order.
ExpectedOffsets(in, record_type) ==
  LET idx == SelectSeq([i \in 1..Len(in.tags) |-> i],
                       LAMBDA i : /\ in.tags[i] \in KnownTags
                                  /\ RECORD_TYPE_MAP[in.tags[i]] = record_type)
  IN [j \in 1..Len(idx) |-> TagOffset(in, idx[j])]

\* get_record_tracks has returned its tracks.
ScanComplete == pc \in {"decode", "returned"}

(***************************************************************************)
(* C1.  An unknown type tag is fatal: when the byte at the place of the    *)
(* i-th type tag maps to no record kind (the tags before it do), the scan  *)
(* raises UnknownRecordTypeError carrying that byte and that offset; it    *)
(* records no offset at or after it, and no ParseResult is returned.       *)
(***************************************************************************)
FirstUnknown(i) ==
  /\ input.tags[i] \notin KnownTags
  /\ \A j \in 1..(i - 1) : input.tags[j] \in KnownTags
  /\ TagOffset(input, i) < Len(data)

\* C1: an unmapped byte where the i-th tag is expected raises, naming the
\* byte and its offset; nothing at or after it is recorded or returned.
C1_UnknownTagIsFatal ==
  \A i \in 1..Len(input.tags) :
    (WellFormedHead /\ FirstUnknown(i)) =>
      /\ pc \notin {"decode", "returned"}
      /\ outcome.state # "returned"
      /\ pc = "raised" =>
           outcome = Raised(UnknownRecordTypeError(input.tags[i],
                                                   TagOffset(input, i)))
      /\ record_tracks # None =>
           \A k \in DOMAIN record_tracks :
             \A j \in 1..Len(record_tracks[k].offsets) :
               record_tracks[k].offsets[j] < TagOffset(input, i)

C1_Witness ==
  /\ WellFormedHead
  /\ Len(input.tags) = 2
  /\ FirstUnknown(2)
  /\ pc = "raised"
  /\ outcome.error.type = "UnknownRecordTypeError"
  /\ outcome.error.offset = offset

(***************************************************************************)
(* C2.  A malformed preamble aborts the parse before anything is decoded:  *)
(* when the first 8 bytes are not 'AUTEL_FR' or the little-endian u32 at   *)
(* bytes 8-11 is not 3 (or the buffer has no 12 bytes), parse_log_data     *)
(* raises without having called parse_record or read a type tag.           *)
(***************************************************************************)
BadPreamble ==
  \/ Len(data) < 12
  \/ SubSeq(data, 1, 8) # <<65, 85, 84, 69, 76, 95, 70, 82>>
  \/ data[9] + 256 * data[10] + 65536 * data[11] + 16777216 * data[12] # 3

\* C2: with a malformed preamble the parse raises before any parse_record
\* call and before any tag is read.
C2_BadPreambleAborts ==
  BadPreamble =>
    /\ pc \in {"parse_log_data", "raised"}
    /\ pc = "raised" <=> outcome.state = "raised"
    /\ outcome.state # "returned"
    /\ calls.parse_record = 0
    /\ calls.read_tag = 0
    /\ record_tracks = None
    /\ header = None

C2_Witness ==
  /\ pc = "raised"
  /\ Len(data) > 12
  /\ SubSeq(data, 1, 8) = MAGIC
  /\ data[9] = 3
  /\ BadPreamble

(***************************************************************************)
(* C3.  For a well-formed preamble and head followed by N tagged records   *)
(* of the six non-head kinds laid out back to back, the scan records       *)
(* exactly N body offsets: the track of each kind holds the offsets of     *)
(* the tag bytes of that kind, in stream order.                            *)
(***************************************************************************)
KnownBody == \A i \in 1..Len(input.tags) : input.tags[i] \in NonHeadTags

BodyOffsetCount ==
  LET n[i \in 0..Len(RECORD_TYPE_VALUES)] ==
        IF i = 0 THEN 0
        ELSE n[i - 1] + (IF RECORD_TYPE_VALUES[i] = "head" THEN 0
                         ELSE Len(record_tracks[RECORD_TYPE_VALUES[i]].offsets))
  IN n[Len(RECORD_TYPE_VALUES)]

\* C3: N records of non-head kinds back to back give N body offsets, each
\* in the track of its tag's kind, in stream order.
C3_ScanRecoversEveryRecord ==
  (ScanComplete /\ WellFormedHead /\ KnownBody) =>
    /\ BodyOffsetCount = Len(input.tags)
    /\ \A k \in DOMAIN record_tracks \ {"head"} :
         record_tracks[k].offsets = ExpectedOffsets(input, k)
    /\ \A i \in 1..Len(input.tags) :
         data[TagOffset(input, i) + 1] = input.tags[i]

C3_Witness ==
  /\ ScanComplete
  /\ WellFormedHead
  /\ KnownBody
  /\ Len(input.tags) = 2
  /\ input.tags[1] # input.tags[2]
  /\ BodyOffsetCount = 2

(***************************************************************************)
(* C4.  Consecutive record offsets of the whole file differ by the size    *)
(* of the earlier record's track plus 1 for the tag byte.                  *)
(* As claimed (C4_EveryPair) this fails for the head offset and the first  *)
(* tagged record: the head track's size counts firmware_info as -1 byte    *)
(* and leaves firmware_size out.  It holds for every pair whose earlier    *)
(* offset is a tagged record's, and the first tagged record sits at the    *)
(* head offset plus the head track's size plus 1 plus firmware_size        *)
(* (C4_TaggedPairs).                                                       *)
(***************************************************************************)
Range(s) == {s[i] : i \in DOMAIN s}

AllOffsets == UNION {Range(record_tracks[k].offsets) : k \in DOMAIN record_tracks}

TrackOf(a) ==
  CHOOSE k \in DOMAIN record_tracks : a \in Range(record_tracks[k].offsets)

Consecutive(a, b) ==
  /\ a \in AllOffsets
  /\ b \in AllOffsets
  /\ a < b
  /\ ~\E c \in AllOffsets : a < c /\ c < b

\* The u16 the buffer holds in the head's firmware_size field.
FirmwareSizeInData == data[14 + 155 + 1] + 256 * data[14 + 156 + 1]

\* C4 as claimed: every consecutive pair, the head offset and the first
\* tagged record included, differs by the earlier track's size plus 1.
C4_EveryPair ==
  ScanComplete =>
    \A a, b \in AllOffsets :
      Consecutive(a, b) => b = a + record_tracks[TrackOf(a)].size + 1

\* C4 as amended: the pairs that start at a tagged record differ by the
\* track's size plus 1; the pair that starts at the head offset by the head
\* track's size plus 1 plus firmware_size.
C4_TaggedPairs ==
  ScanComplete =>
    \A a, b \in AllOffsets :
      Consecutive(a, b) =>
        b = a + record_tracks[TrackOf(a)].size + 1
              + (IF a = 14 THEN FirmwareSizeInData ELSE 0)

C4_Witness ==
  /\ ScanComplete
  /\ Cardinality(AllOffsets) = 3
  /\ \E a, b \in AllOffsets : a # 14 /\ Consecutive(a, b)

(***************************************************************************)
(* C5.  The head track and its seeded offset.                              *)
(* As claimed (C5_HeadTrackIsByte12) the head track of a finished scan is  *)
(* the one offset 12; the code seeds and decodes the head at 14, and       *)
(* RECORD_TYPE_MAP maps tag 6 to head, so a tag byte 6 of the stream body  *)
(* adds its offset to the head track.  What holds (C5_HeadTrackSeeded):    *)
(* the head track's first offset is 14, seeded before the first tag is     *)
(* read; every later offset of it is that of a tag byte 6 of the body;     *)
(* without such a byte the track holds the one offset 14.                  *)
(***************************************************************************)
HeadOffsets == record_tracks["head"].offsets

FirmwareBytes == SubSeq(data, 14 + 157 + 1, 14 + 157 + FirmwareSizeInData)

\* C7: firmware_info is the firmware_size bytes after the firmware_size
\* field up to the first null byte, and the offset advances by
\* firmware_size.
C7_FirmwareInfo ==
  /\ (pc = "scan" /\ calls.read_tag = 0) =>
       offset = 14 + 157 + FirmwareSizeInData
  /\ header # None =>
       LET info == header["firmware_info"]
           n == Len(info)
       IN /\ header["firmware_size"] = FirmwareSizeInData
          /\ n <= FirmwareSizeInData
          /\ info = SubSeq(FirmwareBytes, 1, n)
          /\ \A i \in 1..n : info[i] # 0
          /\ n < FirmwareSizeInData => FirmwareBytes[n + 1] = 0
          /\ FirmwareBytes = <<49, 46, 48, 0>> => info = <<49, 46, 48>>
          /\ (FirmwareSizeInData = 5 /\ FirmwareBytes = <<49, 46, 48, 46, 50>>)
               => info = <<49, 46, 48, 46, 50>>

C7_Witness ==
  /\ header # None
  /\ FirmwareSizeInData = 5
  /\ Len(data) > 14 + 157 + 5
  /\ data[14 + 157 + 5 + 1] = 0
  /\ header["firmware_info"] = <<49, 46, 48, 46, 50>>

(***************************************************************************)
(* C8.  A head whose firmware_size field holds 0 or 1 aborts the parse     *)
(* with the AssertionError of parse_record: firmware_info is not read,     *)
(* no track is built and nothing is returned.                              *)
(***************************************************************************)
\* C8: a firmware_size of 0 or 1 makes the decode of the head raise; no
\* result is returned.
C8_SmallFirmwareSizeAborts ==
  (/\ ~BadPreamble
   /\ Len(data) >= 14 + 157
   /\ input.profile.s < 128
   /\ FirmwareSizeInData <= 1) =>
    /\ pc \in {"parse_log_data", "get_record_tracks", "raised"}
    /\ pc = "raised" => outcome = Raised(AssertionError)
    /\ outcome.state # "returned"
    /\ record_tracks = None
    /\ header = None

C8_Witness ==
  /\ pc = "raised"
  /\ outcome.error = AssertionError
  /\ Len(data) >= 14 + 157
  /\ FirmwareSizeInData = 1

(***************************************************************************)
(* C9.  A read past the end of the buffer aborts the parse.                *)
(* As claimed (C9_TruncatedLastFails) a truncated last tagged record       *)
(* always makes the parse fail; a last record tagged 6 (head) is filed in  *)
(* the head track, which parse_log_data never decodes, so the parse        *)
(* returns.  What holds (C9_TruncationAborts): a returned result has every *)
(* decoded record inside the buffer; a truncated last record of one of     *)
(* the six non-head kinds has its offset recorded and makes the parse      *)
(* raise struct.error when it is decoded; a truncated last record tagged   *)
(* as head raises nothing.                                                 *)
(***************************************************************************)
LastTag == input.tags[Len(input.tags)]

TruncatedLast ==
  /\ WellFormedHead
  /\ input.tags # <<>>
  /\ \A i \in 1..Len(input.tags) : input.tags[i] \in KnownTags
  /\ ~input.bad
  /\ input.cut > 0
  /\ input.cut <= Len(EncodeBody(LastTag, input.profile))

UndecodableLast ==
  /\ WellFormedHead
  /\ input.tags # <<>>
  /\ \A i \in 1..Len(input.tags) : input.tags[i] \in KnownTags
  /\ \/ input.bad /\ RECORD_TYPE_MAP[LastTag] \in {"video", "image"}
     \/ TruncatedLast /\ LastTag \in NonHeadTags

\* C10: a result holds a whole decoded record for every offset of every
\* non-head track; a raise returns nothing and ends the call.
C10_AllOrNothing ==
  /\ outcome.state = "returned" =>
       /\ pc = "returned"
       /\ calls.parse_record = 2 + BodyOffsetCount
       /\ outcome.value.total_records = BodyOffsetCount
       /\ \A k \in DOMAIN outcome.value.record_tracks \ {"head"} :
            /\ Len(outcome.value.records[k])
                 = Len(outcome.value.record_tracks[k].offsets)
            /\ \A j \in 1..Len(outcome.value.records[k]) :
                 DOMAIN outcome.value.records[k][j] = Range(RecordKeyMap[k])
  /\ outcome.state = "raised" <=> pc = "raised"
  /\ pc = "raised" => ~ENABLED Next
  /\ UndecodableLast => outcome.state # "returned"

C10_Witness ==
  /\ UndecodableLast
  /\ input.bad
  /\ pc = "raised"
  /\ outcome = Raised(UnicodeDecodeError)
  /\ total_records = 1
  /\ records # None


(***************************************************************************)
(* C11.  The record count of a returned ParseResult is the number of       *)
(* decoded records of the six kinds that are lists; the head record, held  *)
(* as one dict under 'head', is not counted.                               *)
(***************************************************************************)
ListKinds == {"in_full", "in_base", "out_full", "out_base", "video", "image"}

RECURSIVE SumLen(_, _)
SumLen(recs, kinds) ==
  IF kinds = {} THEN 0
  ELSE LET k == CHOOSE x \in kinds : TRUE
       IN Len(recs[k]) + SumLen(recs, kinds \ {k})

\* C11: in a returned result total_records is the sum of the lengths of the
\* six non-head record lists.
C11_TotalIsSumOfLists ==
  outcome.state = "returned" =>
    /\ ListKinds = DOMAIN outcome.value.records \ {"head"}
    /\ outcome.value.total_records = SumLen(outcome.value.records, ListKinds)

C11_Witness ==
  /\ outcome.state = "returned"
  /\ outcome.value.total_records = 2
  /\ Len(outcome.value.records["video"]) = 1
  /\ Len(outcome.value.records["in_full"]) = 1
  /\ Len(outcome.value.record_tracks["head"].offsets) = 1

(***************************************************************************)
(* C12.  Each of the six record lists runs parallel to its track: as many  *)
(* elements as the track has offsets, the i-th being what parse_record     *)
(* decodes one byte past the i-th offset; the offsets of a track grow, so  *)
(* the list is in file order.                                              *)
(***************************************************************************)
\* C12: in a returned result every non-head list has its track's length and
\* its i-th element is the decode at the i-th track offset plus one.
C12_ListsFollowTracks ==
  outcome.state = "returned" =>
    \A k \in ListKinds :
      LET offs == outcome.value.record_tracks[k].offsets
          recs == outcome.value.records[k]
      IN /\ Len(recs) = Len(offs)
         /\ \A i \in 1..Len(offs) :
              LET r == parse_record(data, k, offs[i] + 1)
              IN r.ok /\ recs[i] = r.value
         /\ \A i \in 1..(Len(offs) - 1) : offs[i] < offs[i + 1]

C12_Witness ==
  /\ outcome.state = "returned"
  /\ \E k \in ListKinds :
       /\ Len(outcome.value.records[k]) = 2
       /\ outcome.value.records[k][1] # outcome.value.records[k][2]
       /\ outcome.value.record_tracks[k].offsets[1]
            < outcome.value.record_tracks[k].offsets[2]

(***************************************************************************)
(* C13.  A decoded record is a dict whose keys are exactly the keys of its *)
(* kind's key list.  The case of the claim: a well-formed preamble and     *)
(* head before one whole in_base record gives one record in all, in the    *)
(* in_base list, holding every in_base key.                                *)
(***************************************************************************)
OneInBase ==
  /\ WellFormedHead
  /\ input.tags = <<3>>
  /\ input.cut = 0
  /\ ~input.bad

\* C13: every decoded record of a returned result has exactly the keys of
\* its kind; one in_base record after a valid head gives total_records 1
\* and an in_base list of one record with every in_base key.
C13_RecordsHoldTheirSchema ==
  /\ outcome.state = "returned" =>
       /\ DOMAIN outcome.value.header = Range(RecordKeyMap["head"])
       /\ \A k \in ListKinds :
            \A i \in 1..Len(outcome.value.records[k]) :
              DOMAIN outcome.value.records[k][i] = Range(RecordKeyMap[k])
  /\ (OneInBase /\ pc \in {"returned", "raised"}) =>
       /\ outcome.state = "returned"
       /\ outcome.value.total_records = 1
       /\ Len(outcome.value.records["in_base"]) = 1
       /\ DOMAIN outcome.value.records["in_base"][1] = Range(InBaseKeys)

C13_Witness ==
  /\ OneInBase
  /\ outcome.state = "returned"
  /\ outcome.value.total_records = 1
  /\ {"current_time", "bottom_radar_info", "param_2"}
       \subseteq DOMAIN outcome.value.records["in_base"][1]

(***************************************************************************)
(* C14.  The scan files offsets as its offset grows and steps over a whole *)
(* record each time: the offsets of a track grow strictly, and the places  *)
(* of two filed records, each the tag byte and the size of its track,      *)
(* share no byte.  (The place may run past the end of a cut buffer.)       *)
(***************************************************************************)
\* The filed records: kind, offset, and the offset past the record.
C14_Entries ==
  UNION {{[kind |-> k, off |-> record_tracks[k].offsets[i],
           end |-> record_tracks[k].offsets[i] + 1 + record_tracks[k].size] :
             i \in 1..Len(record_tracks[k].offsets)} :
         k \in DOMAIN record_tracks}

\* C14: in every track the offsets grow strictly, and no two filed records
\* overlap.
C14_TracksOrderedAndDisjoint ==
  record_tracks # None =>
    /\ \A k \in DOMAIN record_tracks :
         \A i \in 1..(Len(record_tracks[k].offsets) - 1) :
           record_tracks[k].offsets[i] < record_tracks[k].offsets[i + 1]
    /\ \A a, b \in C14_Entries :
         a # b => (a.end <= b.off \/ b.end <= a.off)
    /\ \A k \in DOMAIN record_tracks :
         record_tracks[k].size = get_total_record_size(k)

C14_Witness ==
  /\ ScanComplete
  /\ Len(record_tracks["video"].offsets) = 2
  /\ Len(record_tracks["head"].offsets) = 1
  /\ Cardinality(C14_Entries) = 3

(***************************************************************************)
(* C16.  RECORD_TYPE_MAP.  The table has seven entries, one of them        *)
(* 6 -> 'head': a byte 6 where a tag is read is a known tag, and the scan  *)
(* files its offset in the head track.  The table is one-to-one; without   *)
(* its head entry it is a bijection between the tags 0, 1, 2, 3, 14, 15    *)
(* and the six kinds decoded into lists.                                   *)
(***************************************************************************)
Kinds(map) == {map[t] : t \in DOMAIN map}

OneToOne(map) == \A s, t \in DOMAIN map : map[s] = map[t] => s = t

C17_KeyListsMatchCatalog ==
  /\ \A kind \in DOMAIN RecordKeyMap :
       \A i \in 1..Len(RecordKeyMap[kind]) :
         /\ RecordKeyMap[kind][i] \in DOMAIN RECORD_SIZES
         /\ RECORD_SIZES[RecordKeyMap[kind][i]] # 0
  /\ \A kind \in DOMAIN RecordKeyMap \ {"head"} :
       "firmware_info" \notin Range(RecordKeyMap[kind])
  /\ LET keys == RecordKeyMap["head"]
     IN /\ Len(keys) >= 2
        /\ keys[Len(keys)] = "firmware_info"
        /\ keys[Len(keys) - 1] = "firmware_size"
        /\ \A i \in 1..(Len(keys) - 1) : keys[i] # "firmware_info"
  /\ outcome.state = "raised" =>
       ~(outcome.error.type = "ValueError" /\ outcome.error.what = "size 0")
  /\ header # None =>
       /\ Len(header["firmware_info"]) <= header["firmware_size"]
       /\ header["firmware_size"] = input.profile.firmware_size

\* A head decoded, its firmware_info read with the decoded firmware_size.
C17_Witness ==
  /\ pc = "decode"
  /\ header # None
  /\ header["firmware_size"] = 5
  /\ header["firmware_info"] = <<49, 46, 48, 46, 50>>

(***************************************************************************)
(* SpecReader: the byte reader and the hex rendering, called at any offset *)
(* of a buffer.  The buffer is the first bytes of three 4-byte words; a    *)
(* 32-bit read is made where its top byte is below 128, the integers of    *)
(* the checker being 32 bits wide.                                         *)
(***************************************************************************)
RdMaxLen == 8

Words ==
  {<<0, 0, 0, 0>>, <<26, 0, 0, 0>>, <<1, 2, 3, 4>>, <<255, 128, 171, 127>>,
   <<0, 239, 16, 1>>}

ReaderBuffers ==
  {SubSeq(w1 \o w2 \o w1, 1, n) : w1 \in Words, w2 \in Words, n \in 0..RdMaxLen}

ReaderInit ==
  /\ rd_data \in ReaderBuffers
  /\ rd_call = None
  /\ NotReaderIdle

\* Offsets to call at: inside the buffer, at its end and past it.
ReaderOffsets == 0..(Len(rd_data) + 1)

\* The bytes at offset + 3 and, of an 8-byte read, offset + 7 are below 128.
InRange(o, n) ==
  \A top \in {o + 4} \cup (IF n = 8 THEN {o + 8} ELSE {}) :
    top <= Len(rd_data) => rd_data[top] < 128

Called(fn, o, result) ==
  /\ rd_call' = [fn |-> fn, offset |-> o, result |-> result]
  /\ UNCHANGED rd_data

ReadU8 == \E o \in ReaderOffsets : Called("read_uint8", o, read_uint8(rd_data, o))

ReadU16 ==
  \E o \in ReaderOffsets : Called("read_uint16", o, read_uint16(rd_data, o))

ReadU32 ==
  \E o \in ReaderOffsets :
    InRange(o, 4) /\ Called("read_uint32", o, read_uint32(rd_data, o))

ReadU64 ==
  \E o \in ReaderOffsets :
    InRange(o, 8) /\ Called("read_uint64", o, read_uint64(rd_data, o))

\* parse_record_item on a 4-byte key of format 'h'.
ReadHex ==
  \E o \in ReaderOffsets :
    /\ InRange(o, 4)
    /\ Called("hex", o, parse_record_item(rd_data, o, "out_full",
                                          "drone_warning"))

ReaderNext ==
  \/ ReadU8 /\ UNCHANGED notReader
  \/ ReadU16 /\ UNCHANGED notReader
  \/ ReadU32 /\ UNCHANGED notReader
  \/ ReadU64 /\ UNCHANGED notReader
  \/ ReadHex /\ UNCHANGED notReader

SpecReader == ReaderInit /\ [][ReaderNext]_vars

(***************************************************************************)
(* C18.  An integer read returns the little-endian unsigned value of its   *)
(* 1, 2, 4 or 8 bytes at the offset, the sum of byte[i] * 256^i (an 8-byte *)
(* value as its two 32-bit halves), and fails when the buffer does not     *)
(* hold them; a 4-byte field of format 'h' is the hex() of that value:     *)
(* '0x', then its lowercase digits without leading zeros.                  *)
(***************************************************************************)
Width(fn) ==
  CASE fn = "read_uint8" -> 1
    [] fn = "read_uint16" -> 2
    [] fn = "read_uint32" -> 4
    [] fn = "read_uint64" -> 8
    [] fn = "hex" -> 4

\* Byte i, from 0, of the call's bytes.
CallByte(i) == rd_data[rd_call.offset + 1 + i]

ByteSum4(i) ==
  CallByte(i) + 256 * CallByte(i + 1) + 65536 * CallByte(i + 2)
    + 16777216 * CallByte(i + 3)

\* The value of a lowercase hex digit; 16 for any other character.
HexValue(c) ==
  IF c \in 48..57 THEN c - 48 ELSE IF c \in 97..102 THEN c - 87 ELSE 16

RECURSIVE ParseHex(_)
ParseHex(digits) ==
  IF digits = <<>> THEN 0
  ELSE 16 * ParseHex(SubSeq(digits, 1, Len(digits) - 1))
         + HexValue(digits[Len(digits)])

IsHexOf(str, n) ==
  /\ Len(str) >= 3
  /\ str[1] = 48 /\ str[2] = 120
  /\ LET digits == SubSeq(str, 3, Len(str))
     IN /\ \A i \in 1..Len(digits) : HexValue(digits[i]) < 16
        /\ Len(digits) > 1 => digits[1] # 48
        /\ ParseHex(digits) = n

\* C18: a call returns exactly when its bytes are in the buffer, and then
\* the little-endian value of those bytes, or its hex rendering.
C18_LittleEndianReads ==
  rd_call # None =>
    LET fn == rd_call.fn
        r == rd_call.result
    IN /\ r.ok <=> rd_call.offset + Width(fn) <= Len(rd_data)
       /\ ~r.ok => r.error.type = "struct.error"
       /\ r.ok =>
            CASE fn = "read_uint8" -> r.value = CallByte(0)
              [] fn = "read_uint16" -> r.value = CallByte(0) + 256 * CallByte(1)
              [] fn = "read_uint32" -> r.value = ByteSum4(0)
              [] fn = "read_uint64" ->
                   r.value = [lo |-> ByteSum4(0), hi |-> ByteSum4(4)]
              [] fn = "hex" -> IsHexOf(r.value, ByteSum4(0))

\* Each width read on distinct bytes, one of them above 127, and a hex
\* rendering with a letter digit and a zero digit inside.
C18_Witness ==
  /\ rd_call # None
  /\ rd_call.result.ok
  /\ rd_call.fn = "hex"
  /\ rd_call.offset = 1
  /\ rd_data = <<0, 239, 16, 1, 26, 0, 0, 0>>
  /\ rd_call.result.value = <<48, 120, 49, 97, 48, 49, 49, 48, 101, 102>>

(***************************************************************************)
(* SpecInterleaved: two calls of parse_log_data, on two buffers, their     *)
(* steps interleaved in any order.  A call's local variables are its       *)
(* frame; the dict of tracks that get_record_tracks builds and the scan    *)
(* appends to is an object, held in the frame by its identity.  A step of  *)
(* a call is the step of the one-buffer state machine above, as a          *)
(* function of the frame.                                                  *)
(***************************************************************************)
Calls == {1, 2}

NewFrame ==
  [pc |-> "parse_log_data", offset |-> 0, record_tracks |-> None,
   header |-> None, records |-> None, total_records |-> 0, todo |-> <<>>,
   outcome |-> Pending]

Raising(f, e) == [f EXCEPT !.pc = "raised", !.outcome = Raised(e)]

\* ParseResult, of a frame.
ParseResultOf(f) ==
  [filename |-> FILENAME, header |-> f.header,
   records |-> [k \in DOMAIN f.records \cup {"head"} |->
                  IF k = "head" THEN f.header ELSE f.records[k]],
   record_tracks |-> f.record_tracks, total_records |-> f.total_records]

\* One step of parse_log_data on in_data, from the frame f with its tracks
\* in place of their identity: ValidatePreamble, ScanHead, ScanStep,
\* DecodeHeader, DecodeStep or ReturnResult, by where the call is.
parse_step(in_data, f) ==
  CASE f.pc = "parse_log_data" ->
         LET r == check_preamble(in_data)
         IN IF r.ok THEN [f EXCEPT !.pc = "get_record_tracks"]
            ELSE Raising(f, r.error)
    [] f.pc = "get_record_tracks" ->
         LET r == parse_record(in_data, "head", HEAD_OFFSET)
         IN IF r.ok
            THEN [f EXCEPT !.offset = r.offset,
                           !.record_tracks =
                              Append_(NewTracks, "head", HEAD_OFFSET),
                           !.pc = "scan"]
            ELSE Raising(f, r.error)
    [] f.pc = "scan" /\ f.offset < Len(in_data) ->
         LET r == get_record_type_from_offset(in_data, f.offset)
         IN IF r.ok
            THEN [f EXCEPT !.record_tracks = Append_(@, r.value, f.offset),
                           !.offset = next_offset(@, f.record_tracks[r.value])]
            ELSE Raising(f, r.error)
    [] f.pc = "scan" /\ ~(f.offset < Len(in_data)) ->
         LET header_offset == f.record_tracks["head"].offsets[1]
             r == parse_record(in_data, "head", header_offset)
         IN IF r.ok
            THEN [f EXCEPT !.header = r.value,
                           !.records = [k \in DOMAIN f.record_tracks \ {"head"}
                                          |-> <<>>],
                           !.total_records = 0,
                           !.todo = DecodeOrder(f.record_tracks, 1),
                           !.pc = "decode"]
            ELSE Raising(f, r.error)
    [] f.pc = "decode" /\ f.todo # <<>> ->
         LET record_type == f.todo[1][1]
             r == parse_record(in_data, record_type, f.todo[1][2] + 1)
         IN IF r.ok
            THEN [f EXCEPT !.records[record_type] = Append(@, r.value),
                           !.total_records = @ + 1,
                           !.todo = Tail(@)]
            ELSE Raising(f, r.error)
    [] f.pc = "decode" /\ f.todo = <<>> ->
         [f EXCEPT !.pc = "returned", !.outcome = Returned(ParseResultOf(f))]

Done(f) == f.pc \in {"returned", "raised"}

\* Where a frame holds the identity of its dict of tracks.
Ref(id) == [ref |-> id]

\* The frame with the dict in place of its identity, in the returned
\* ParseResult too.
Deref(f, heap) ==
  LET tracks == IF f.record_tracks = None THEN None
                ELSE heap[f.record_tracks.ref]
  IN [f EXCEPT !.record_tracks = tracks,
               !.outcome = IF @.state = "returned"
                           THEN Returned([@.value EXCEPT
                                            !.record_tracks = tracks])
                           ELSE @]

\* The frame with the identity id in place of the dict.
Enref(f, id) ==
  [f EXCEPT !.record_tracks = IF @ = None THEN None ELSE Ref(id),
            !.outcome = IF @.state = "returned"
                        THEN Returned([@.value EXCEPT
                                         !.record_tracks = Ref(id)])
                        ELSE @]

\* As NewObject, the dict of tracks being one object of the module that
\* every call fills anew.
NewObject_of_module(call) == 1

\* The identity of the dict the comprehension of get_record_tracks builds
\* in a call: a new object.
NewObject(call) == call

\* Two calls on buffers that differ: one before records of kind in_base,
\* the other before video records and unknown tags or of an unsupported
\* version.
InterleavedInputs(call) ==
  LET p == Profile(0, 0, 4, <<49, 46, 48, 0>>)
      In(v, t) == [magic |-> MAGIC, version |-> v, profile |-> p, tags |-> t,
                   bad |-> FALSE, cut |-> 0]
  IN IF call = 1
     THEN {In(<<3, 0, 0, 0>>, t) : t \in SeqsUpTo({3}, MaxRecs) \ {<<>>}}
     ELSE {In(<<3, 0, 0, 0>>, t) : t \in SeqsUpTo({15, 7}, MaxRecs) \ {<<>>}}
          \cup {In(<<2, 0, 0, 0>>, <<15>>)}

InterleavedInit ==
  /\ \E in1 \in InterleavedInputs(1), in2 \in InterleavedInputs(2) :
       iinputs = [c \in Calls |-> IF c = 1 THEN in1 ELSE in2]
  /\ ibufs = [c \in Calls |-> Buffer(iinputs[c])]
  /\ frames = [c \in Calls |-> NewFrame]
  /\ objects = [c \in Calls |-> None]
  /\ interleaved = FALSE
  /\ NotInterleavedIdle

InFlight(f) == f.pc # "parse_log_data" /\ ~Done(f)

\* A step of one call.
CallStep(call) ==
  /\ ~Done(frames[call])
  /\ \E after \in {parse_step(ibufs[call], Deref(frames[call], objects))} :
       LET before == frames[call]
           id == IF before.record_tracks = None THEN NewObject(call)
                 ELSE before.record_tracks.ref
       IN /\ frames' = [frames EXCEPT ![call] = Enref(after, id)]
          /\ objects' = IF after.record_tracks = None THEN objects
                        ELSE [objects EXCEPT ![id] = after.record_tracks]
  /\ interleaved' =
       (interleaved \/ \E c \in Calls \ {call} : InFlight(frames[c]))
  /\ UNCHANGED <<iinputs, ibufs>>

InterleavedNext ==
  \/ CallStep(1) /\ UNCHANGED notInterleaved
  \/ CallStep(2) /\ UNCHANGED notInterleaved

SpecInterleaved == InterleavedInit /\ [][InterleavedNext]_vars

\* The frame of the one-buffer state machine.
Frame ==
  [pc |-> pc, offset |-> offset, record_tracks |-> record_tracks,
   header |-> header, records |-> records, total_records |-> total_records,
   todo |-> todo, outcome |-> outcome]

\* Under Spec: every step of the state machine is parse_step of its frame.
StepIsParseStep == [][Frame' = parse_step(data, Frame)]_vars

(***************************************************************************)
(* C15.  Interleaved calls do not touch one another: no call's buffer is   *)
(* written, no two calls hold the same dict of tracks, and a call that has *)
(* ended has returned or raised what the call alone returns or raises on   *)
(* its buffer.                                                             *)
(***************************************************************************)
\* What parse_log_data returns or raises when it runs alone from frame f.
RECURSIVE Alone(_, _)
Alone(in_data, f) ==
  IF Done(f) THEN f.outcome
  ELSE CHOOSE o \in {Alone(in_data, g) : g \in {parse_step(in_data, f)}} :
         TRUE

\* C15: the buffers stay as given; calls share no tracks; a call that has
\* ended has the outcome of the call run alone.
C15_InterleavedAsAlone ==
  \A call \in Calls :
    /\ ibufs[call] = Buffer(iinputs[call])
    /\ \A c \in Calls \ {call} :
         frames[call].record_tracks # None =>
           frames[call].record_tracks # frames[c].record_tracks
    /\ Done(frames[call]) =>
         Deref(frames[call], objects).outcome = Alone(ibufs[call], NewFrame)

\* Both calls have ended, one having run between the steps of the other:
\* the first returned two records, the second raised on an unknown tag.
C15_Witness ==
  /\ interleaved
  /\ \A call \in Calls : Done(frames[call])
  /\ frames[1].outcome.state = "returned"
  /\ frames[1].outcome.value.total_records = 2
  /\ frames[2].outcome.state = "raised"
  /\ frames[2].outcome.error.type = "UnknownRecordTypeError"
  /\ objects[1] # None /\ objects[2] # None /\ objects[1] # objects[2]

(***************************************************************************)
(* SpecMedia: flight/media.py, the cache of analysed video files           *)
(* (VideoCacheData) under calls of add_file and of search.  The files on   *)
(* disk are fixed; every search is for a video that starts at second 0 and *)
(* lasts 60 seconds.  Times are whole seconds, a confidence is counted in  *)
(* hundredths.                                                             *)
(***************************************************************************)
MaxListing == 2

MaxParses == 3

\* A value where None may stand.
Some(v) == [some |-> v]

RECURSIVE Gcd(_, _)
Gcd(m, n) == IF n = 0 THEN m ELSE Gcd(n, m % n)

\* fractions.Fraction(numerator, denominator), in lowest terms.
Fraction(numerator, denominator) ==
  [numerator |-> numerator \div Gcd(numerator, denominator),
   denominator |-> denominator \div Gcd(numerator, denominator)]

\* What analysing a file finds: its duration, its frame rate and the time of
\* its first subtitle entry (None without subtitles); or nothing, for a file
\* that cannot be analysed.
Disk ==
  [a |-> [duration |-> 60, fps |-> Fraction(30, 1), start_time |-> Some(3)],
   b |-> [duration |-> 62, fps |-> Fraction(60, 1), start_time |-> Some(-1)],
   c |-> [duration |-> 70, fps |-> Fraction(30000, 1001), start_time |-> Some(0)],
   d |-> [duration |-> 60, fps |-> Fraction(24, 1), start_time |-> None],
   bad |-> None]

Paths == DOMAIN Disk

\* The arguments of every search.
Query == [start_time |-> 0, duration |-> 60]

Abs(x) == IF x < 0 THEN -x ELSE x

\* VideoFileInfo.from_file
parse_file(path) ==
  IF Disk[path] = None
  THEN Raise(ValueError("Could not get duration or fps"))
  ELSE Return([filename |-> path, duration |-> Disk[path].duration,
               fps |-> Disk[path].fps,
               start_time |-> Disk[path].start_time])

\* VideoFileInfo.serialize, VideoCacheData.serialize
serialize(files) ==
  [video_files |->
     [i \in 1..Len(files) |->
        [filename |-> files[i].filename, duration |-> files[i].duration,
         fps |-> <<files[i].fps.numerator, files[i].fps.denominator>>,
         subtitle_entries |-> IF files[i].start_time = None THEN <<>>
                              ELSE <<files[i].start_time.some>>]]]

\* VideoCacheData.deserialize, VideoFileInfo.deserialize: media_files.
deserialize(cached) ==
  [i \in 1..Len(cached.video_files) |->
     LET entry == cached.video_files[i]
     IN [filename |-> entry.filename, duration |-> entry.duration,
         fps |-> Fraction(entry.fps[1], entry.fps[2]),
         start_time |-> IF entry.subtitle_entries = <<>> THEN None
                        ELSE Some(entry.subtitle_entries[1])]]

\* __post_init__: {mf.filename: mf for mf in self.media_files}
RECURSIVE post_init(_)
post_init(files) ==
  IF files = <<>> THEN <<>>
  ELSE SetItem(post_init(SubSeq(files, 1, Len(files) - 1)),
               files[Len(files)].filename, files[Len(files)])

\* VideoCacheData._calc_confidence: None, or
\* 1.0 - abs(vid_start - start_time) / 5 s, in hundredths.
calc_confidence(media_info, start_time, duration) ==
  IF Abs(media_info.duration - duration) > 5 THEN None
  ELSE IF media_info.start_time = None THEN None
  ELSE Some(100 - (Abs(media_info.start_time.some - start_time) * 100) \div 5)

\* As cache_get, never looking into the cache.
cache_get_never(by_path, path, ignore_cache) == None

\* cached = None; if not ignore_cache: cached = self.files_by_path.get(path)
cache_get(by_path, path, ignore_cache) ==
  IF ~ignore_cache /\ path \in DOMAIN by_path THEN by_path[path] ELSE None

\* results.sort(key=lambda r: r.confidence, reverse=True): stable.
RECURSIVE sort_by_confidence(_)
sort_by_confidence(results) ==
  IF results = <<>> THEN <<>>
  ELSE LET last == results[Len(results)]
           init == sort_by_confidence(SubSeq(results, 1, Len(results) - 1))
           ahead == SelectSeq(init, LAMBDA r : r.confidence >= last.confidence)
           behind == SelectSeq(init, LAMBDA r : r.confidence < last.confidence)
       IN ahead \o <<last>> \o behind

\* What a call of add_file or of search returned or raised.
Outcome(call, result) == [call |-> call, result |-> result]

\* What _iter_media_files may yield: files of the search path, each once.
Listings ==
  {l \in SeqsUpTo(Paths, MaxListing) :
     \A i, j \in 1..Len(l) : i # j => l[i] # l[j]}

\* The caches a run starts with: none on disk, or one loaded from disk.
LoadedCaches ==
  {<<>>, <<parse_file("a").value>>,
   <<parse_file("c").value, parse_file("a").value>>}

TotalParses == parse_calls["a"] + parse_calls["b"] + parse_calls["c"]
                 + parse_calls["d"] + parse_calls["bad"]

MediaInit ==
  /\ media_files \in LoadedCaches
  /\ files_by_path = post_init(media_files)
  /\ cache_file = IF media_files = <<>> THEN None ELSE serialize(media_files)
  /\ parse_calls = [p \in Paths |-> 0]
  /\ m_pc = "idle"
  /\ m_ignore_cache = FALSE
  /\ m_todo = <<>>
  /\ m_results = <<>>
  /\ m_outcome = None
  /\ NotMediaIdle

\* add_file, called from outside search.
AddFile ==
  /\ m_pc = "idle"
  /\ TotalParses < MaxParses
  /\ \E path \in Paths :
       LET media_info == parse_file(path)
       IN /\ parse_calls' = [parse_calls EXCEPT ![path] = @ + 1]
          /\ IF media_info.ok
             THEN /\ media_files' = Append(media_files, media_info.value)
                  /\ files_by_path' =
                       SetItem(files_by_path, path, media_info.value)
                  /\ m_outcome' = Outcome("add_file",
                                          Returned(media_info.value))
             ELSE /\ UNCHANGED <<media_files, files_by_path>>
                  /\ m_outcome' = Outcome("add_file",
                                          Raised(media_info.error))
  /\ UNCHANGED <<cache_file, m_pc, m_ignore_cache, m_todo, m_results>>

\* search is called: results = [], the iteration over the files begins.
SearchBegin ==
  /\ m_pc = "idle"
  /\ \E ignore_cache \in BOOLEAN, listing \in Listings :
       /\ TotalParses + Len(listing) <= MaxParses
       /\ m_ignore_cache' = ignore_cache
       /\ m_todo' = [i \in 1..Len(listing) |->
                       [search_path |-> "videos", path |-> listing[i]]]
  /\ m_results' = <<>>
  /\ m_pc' = "search"
  /\ m_outcome' = Outcome("search", Pending)
  /\ UNCHANGED <<media_files, files_by_path, cache_file, parse_calls>>

\* One turn of the loop of search.
SearchStep ==
  /\ m_pc = "search"
  /\ m_todo # <<>>
  /\ LET path == m_todo[1].path
         found == cache_get(files_by_path, path, m_ignore_cache)
         media_info == parse_file(path)
         cached == IF found = None THEN media_info.value ELSE found
         confidence == calc_confidence(cached, Query.start_time, Query.duration)
     IN IF found = None /\ ~media_info.ok
        THEN /\ parse_calls' = [parse_calls EXCEPT ![path] = @ + 1]
             /\ m_pc' = "idle"
             /\ m_todo' = <<>>
             /\ m_results' = <<>>
             /\ m_outcome' = Outcome("search", Raised(media_info.error))
             /\ UNCHANGED <<media_files, files_by_path, cache_file>>
        ELSE /\ IF found = None
                THEN /\ parse_calls' = [parse_calls EXCEPT ![path] = @ + 1]
                     /\ media_files' = Append(media_files, cached)
                     /\ files_by_path' = SetItem(files_by_path, path, cached)
                     /\ cache_file' = serialize(Append(media_files, cached))
                ELSE UNCHANGED <<parse_calls, media_files, files_by_path,
                                 cache_file>>
             /\ m_results' =
                  IF confidence = None THEN m_results
                  ELSE Append(m_results,
                              [item |-> cached,
                               search_path |-> m_todo[1].search_path,
                               confidence |-> confidence.some])
             /\ m_todo' = Tail(m_todo)
             /\ UNCHANGED <<m_pc, m_outcome>>
  /\ UNCHANGED m_ignore_cache

\* The loop has ended: sort and return.
SearchEnd ==
  /\ m_pc = "search"
  /\ m_todo = <<>>
  /\ m_results' = sort_by_confidence(m_results)
  /\ m_outcome' = Outcome("search", Returned(sort_by_confidence(m_results)))
  /\ m_pc' = "idle"
  /\ UNCHANGED <<media_files, files_by_path, cache_file, parse_calls,
                 m_ignore_cache, m_todo>>

MediaNext ==
  \/ AddFile /\ UNCHANGED notMedia
  \/ SearchBegin /\ UNCHANGED notMedia
  \/ SearchStep /\ UNCHANGED notMedia
  \/ SearchEnd /\ UNCHANGED notMedia

SpecMedia == MediaInit /\ [][MediaNext]_vars

(***************************************************************************)
(* C19.  A turn of search with ignore_cache false takes a path that is in  *)
(* files_by_path from the cache and analyses nothing; a path that is not,  *)
(* it analyses once, appends to media_files, enters in files_by_path and   *)
(* saves the cache (a file that cannot be analysed ends the search with    *)
(* the error, the cache as it was).  What search returns is its results    *)
(* in the order of their confidence, highest first.                        *)
(***************************************************************************)
Descending(results) ==
  \A i \in 1..(Len(results) - 1) :
    results[i].confidence >= results[i + 1].confidence

\* Each result is there as often in the one as in the other.
SameResults(r1, r2) ==
  /\ Len(r1) = Len(r2)
  /\ \A x \in Range(r1) \cup Range(r2) :
       Cardinality({i \in 1..Len(r1) : r1[i] = x})
         = Cardinality({i \in 1..Len(r2) : r2[i] = x})

C19_Turn ==
  (m_pc = "search" /\ m_todo # <<>> /\ ~m_ignore_cache) =>
    LET path == m_todo[1].path
    IN IF path \in DOMAIN files_by_path
       THEN /\ UNCHANGED <<parse_calls, media_files, files_by_path,
                           cache_file>>
            /\ m_pc' = "search"
       ELSE /\ parse_calls' = [parse_calls EXCEPT ![path] = @ + 1]
            /\ IF Disk[path] # None
               THEN /\ media_files' = Append(media_files, parse_file(path).value)
                    /\ files_by_path' =
                         SetItem(files_by_path, path, parse_file(path).value)
                    /\ cache_file' = serialize(media_files')
                    /\ m_pc' = "search"
               ELSE /\ UNCHANGED <<media_files, files_by_path, cache_file>>
                    /\ m_outcome'.result.state = "raised"

C19_Return ==
  (m_pc = "search" /\ m_outcome'.result.state = "returned") =>
    /\ Descending(m_outcome'.result.value)
    /\ SameResults(m_outcome'.result.value, m_results)

\* C19: with ignore_cache false a turn of search analyses the file exactly
\* when its path is not in files_by_path, then adds it to the cache and
\* saves the cache; the results are returned by descending confidence.
C19_SearchUsesCache == [][C19_Turn /\ C19_Return]_vars

\* A search with ignore_cache false has returned two results, the one of
\* higher confidence first: "a" from the cache, never analysed, and "b",
\* analysed once, added and saved.
C19_Witness ==
  /\ m_pc = "idle"
  /\ ~m_ignore_cache
  /\ m_outcome # None
  /\ m_outcome.call = "search"
  /\ m_outcome.result.state = "returned"
  /\ Len(m_outcome.result.value) = 2
  /\ m_outcome.result.value[1].item.filename = "b"
  /\ m_outcome.result.value[1].confidence = 80
  /\ m_outcome.result.value[2].item.filename = "a"
  /\ m_outcome.result.value[2].confidence = 40
  /\ parse_calls["a"] = 0
  /\ parse_calls["b"] = 1
  /\ "b" \in DOMAIN files_by_path
  /\ cache_file = serialize(media_files)
  /\ Len(media_files) = 2

\* ---------------------------------------------------------------------------
\* The timestamp-keyed model of a parse result (parser/model.py).
\* ---------------------------------------------------------------------------

MaxModelRecs == 2

\* The record kinds of ParsedRecords.
RecordKinds == {"in_base", "in_full", "out_base", "out_full", "image", "video"}

FlightKinds == {"in_base", "in_full", "out_base", "out_full"}

\* The classes a caller can name, by their RECORD_TYPE.
RecordClasses == RecordKinds \cup {"head"}

\* A flight record's timestamp is the float current_time / 1000, a media
\* record's the datetime of media_timestamp / 1000: each keeps the
\* milliseconds it was made from and the Python type it has.
Float(ms) == [type |-> "float", ms |-> ms]

DateTime(ms) == [type |-> "datetime", ms |-> ms]

from_dict(kind, d) ==
  IF kind \in FlightKinds
    THEN [kind |-> kind, timestamp |-> Float(d.time), n |-> d.n]
    ELSE [kind |-> kind, timestamp |-> DateTime(d.time), n |-> d.n]

\* A dict as the sequence of its items in insertion order.
DictKeys(dict) == [i \in DOMAIN dict |-> dict[i].key]

DictGet(dict, key) ==
  (CHOOSE i \in DOMAIN dict : dict[i].key = key)

\* A dict whose assignment keeps the value a key already has.
DictSet_first(dict, key, value) ==
  IF \E i \in DOMAIN dict : dict[i].key = key
    THEN dict
    ELSE Append(dict, [key |-> key, value |-> value])

DictSet(dict, key, value) ==
  IF \E i \in DOMAIN dict : dict[i].key = key
    THEN [dict EXCEPT ![DictGet(dict, key)].value = value]
    ELSE Append(dict, [key |-> key, value |-> value])

RECURSIVE from_parsed_dicts(_, _)
from_parsed_dicts(kind, dicts) ==
  IF dicts = <<>>
    THEN <<>>
    ELSE LET record == from_dict(kind, dicts[Len(dicts)])
         IN DictSet(from_parsed_dicts(kind, SubSeq(dicts, 1, Len(dicts) - 1)),
                    record.timestamp, record)

from_parse_result(parse_result) ==
  [kind \in RecordKinds |-> from_parsed_dicts(kind, parse_result[kind])]

\* The order of the kinds' names as strings.
KindRank ==
  [image |-> 1, in_base |-> 2, in_full |-> 3, out_base |-> 4, out_full |-> 5, video |-> 6]

\* (dt, key) < (dt', key') of two tuples whose dt have one type.
KeyLess(a, b) ==
  \/ a.dt.ms < b.dt.ms
  \/ a.dt.ms = b.dt.ms /\ KindRank[a.key] < KindRank[b.key]

RECURSIVE InsertKey(_, _)
InsertKey(sorted, k) ==
  IF sorted = <<>>
    THEN <<k>>
    ELSE IF KeyLess(k, sorted[Len(sorted)])
      THEN Append(InsertKey(SubSeq(sorted, 1, Len(sorted) - 1), k), sorted[Len(sorted)])
      ELSE Append(sorted, k)

RECURSIVE SortKeys(_)
SortKeys(keys) ==
  IF keys = <<>>
    THEN <<>>
    ELSE InsertKey(SortKeys(SubSeq(keys, 1, Len(keys) - 1)), keys[Len(keys)])

\* sorted() compares a float with a datetime as soon as the list holds both.
Comparable(keys) ==
  \A i, j \in DOMAIN keys : keys[i].dt.type = keys[j].dt.type

\* The keys of type_map, each once, in the order of the arguments.
RECURSIVE TypeMapKeys(_)
TypeMapKeys(record_types) ==
  IF record_types = <<>>
    THEN <<>>
    ELSE LET rest == TypeMapKeys(SubSeq(record_types, 1, Len(record_types) - 1))
             last == record_types[Len(record_types)]
         IN IF \E i \in DOMAIN rest : rest[i] = last THEN rest ELSE Append(rest, last)

RECURSIVE AllKeys(_, _)
AllKeys(recs, keys) ==
  IF keys = <<>>
    THEN <<>>
    ELSE LET key == keys[Len(keys)]
             dts == DictKeys(recs[key])
         IN AllKeys(recs, SubSeq(keys, 1, Len(keys) - 1))
              \o [i \in DOMAIN dts |-> [dt |-> dts[i], key |-> key]]

iter_records_by_type(recs, record_types) ==
  LET keys == TypeMapKeys(record_types)
  IN IF \E i \in DOMAIN keys : keys[i] \notin DOMAIN recs
       THEN Raised("KeyError")
       ELSE LET all_keys == AllKeys(recs, keys)
            IN IF ~ Comparable(all_keys)
                 THEN Raised("TypeError")
                 ELSE LET sorted == SortKeys(all_keys)
                      IN Returned([i \in DOMAIN sorted |->
                           LET dict == recs[sorted[i].key]
                           IN dict[DictGet(dict, sorted[i].dt)].value])

\* The decoded records of one kind: the n-th of the file carries n.
Decoded(times) == [i \in DOMAIN times |-> [time |-> times[i], n |-> i]]

ModelTimes == {1000, 2000}

ModelInputs ==
  {[kind \in RecordKinds |->
      CASE kind = "in_full" -> Decoded(i)
        [] kind = "out_full" -> Decoded(o)
        [] kind = "video" -> Decoded(v)
        [] OTHER -> <<>>] :
     i \in SeqsUpTo(ModelTimes, MaxModelRecs),
     o \in SeqsUpTo(ModelTimes, MaxModelRecs),
     v \in SeqsUpTo(ModelTimes, MaxModelRecs - 1)}

Requests == SeqsUpTo(RecordClasses, 2) \ {<<>>}

ModelInit ==
  /\ mr_parsed \in ModelInputs
  /\ mr_records = None
  /\ mr_request = <<>>
  /\ mr_outcome = None
  /\ NotModelIdle

FromParseResult ==
  /\ mr_records = None
  /\ mr_records' = from_parse_result(mr_parsed)
  /\ UNCHANGED <<mr_parsed, mr_request, mr_outcome>>

IterRecords ==
  /\ mr_records # None
  /\ \E record_types \in Requests :
       /\ mr_request' = record_types
       /\ mr_outcome' = iter_records_by_type(mr_records, record_types)
  /\ UNCHANGED <<mr_parsed, mr_records>>

ModelNext ==
  \/ FromParseResult /\ UNCHANGED notModel
  \/ IterRecords /\ UNCHANGED notModel

SpecModel == ModelInit /\ [][ModelNext]_vars

\* The records of the requested types the model holds.
Requested ==
  UNION {{mr_records[kind][i].value : i \in DOMAIN mr_records[kind]} :
           kind \in Range(mr_request) \cap RecordKinds}

\* An iteration over record kinds has ended, by returning or by raising.
Iterated ==
  /\ mr_outcome # None
  /\ Range(mr_request) \subseteq RecordKinds

\* C20: ModelResult.iter_records_by_type yields every record of the requested
\* types exactly once, in non-decreasing timestamp order across the requested
\* types taken together.
C20_YieldsAllOnceInOrder ==
  Iterated =>
    /\ mr_outcome.state = "returned"
    /\ LET out == mr_outcome.value
       IN /\ Range(out) = Requested
          /\ \A i, j \in DOMAIN out : i # j => out[i] # out[j]
          /\ \A i, j \in DOMAIN out :
               i < j => out[i].timestamp.ms <= out[j].timestamp.ms

\* in_full and video are requested together, the model holds a record of
\* each, and the iteration raises instead of yielding them.
C20_Witness ==
  /\ mr_outcome = Raised("TypeError")
  /\ mr_request = <<"in_full", "video">>
  /\ Len(mr_records["in_full"]) = 2
  /\ Len(mr_records["video"]) = 1

(***************************************************************************)
(* C21.  A field is decoded by its width and its format.                   *)
(***************************************************************************)
\* The decoding the width and the format of a key call for.
DecodingOf(key) ==
  LET width == RECORD_SIZES[key]
      override == IF key \in DOMAIN RECORD_FORMATS THEN RECORD_FORMATS[key]
                  ELSE "None"
  IN CASE width = 1 -> "u8"
       [] width = 2 -> "u16"
       [] width = 4 /\ override = "None" -> "f32"
       [] width = 4 /\ override = "i" -> "u32"
       [] width = 4 /\ override = "h" -> "hex of u32"
       [] width = 8 /\ override = "d" -> "f64"
       [] width = 8 /\ override # "d" -> "u64"
       [] width \notin {1, 2, 4, 8} /\ override = "[f" -> "float array"
       [] width \notin {1, 2, 4, 8} /\ override = "None" -> "string"

\* The width \div 4 floats packed from off on, or what the first read
\* that fails raises.
FloatArrayAt(off, width) ==
  LET reads == [i \in 1..(width \div 4) |-> read_float32(data, off + (i - 1) * 4)]
      failed == {i \in DOMAIN reads : ~reads[i].ok}
  IN IF failed = {}
       THEN Return([i \in DOMAIN reads |-> reads[i].value])
       ELSE reads[CHOOSE i \in failed : \A j \in failed : i <= j]

\* The value of that decoding read from the buffer at off.
ReadAs(decoding, off, width) ==
  CASE decoding = "u8" -> read_uint8(data, off)
    [] decoding = "u16" -> read_uint16(data, off)
    [] decoding = "f32" -> read_float32(data, off)
    [] decoding = "u32" -> read_uint32(data, off)
    [] decoding = "hex of u32" ->
         LET u == read_uint32(data, off)
         IN IF u.ok THEN Return(hex(u.value)) ELSE u
    [] decoding = "u64" -> read_uint64(data, off)
    [] decoding = "f64" -> read_float64(data, off)
    [] decoding = "string" -> read_string(data, off, width)
    [] decoding = "float array" -> FloatArrayAt(off, width)

\* The u16 in the head's firmware_size field, 0 where the buffer ends
\* before it.
FirmwareSizeRead == IF Fits(data, 14 + 156, 2) THEN FirmwareSizeInData ELSE 0

\* The offsets of the fields of the record of kind record_type that starts
\* at start: that of keys[i] is FieldOffsets[i], and FieldOffsets[Len + 1] is
\* the offset past the last field.  firmware_info takes firmware_size bytes.
FieldOffsets(record_type, start) ==
  LET keys == RecordKeyMap[record_type]
      At[i \in 1..(Len(keys) + 1)] ==
        IF i = 1 THEN start
        ELSE At[i - 1] + (IF keys[i - 1] = "firmware_info"
                            THEN FirmwareSizeRead
                            ELSE RECORD_SIZES[keys[i - 1]])
  IN At

\* The parse has ended, by returning or by raising.
ParseEnded == pc \in {"returned", "raised"}

\* The inputs with a good preamble and records of the six body kinds: the
\* head whole, cut short or with a firmware_size too small, the last record
\* whole, cut short or holding invalid UTF-8.
DecodeInputs ==
  {in \in Inputs :
     /\ in.magic = MAGIC
     /\ in.version = <<3, 0, 0, 0>>
     /\ Range(in.tags) \subseteq DOMAIN RECORD_TYPE_MAP_six}

InitDecode ==
  /\ input \in DecodeInputs
  /\ data = Buffer(input)
  /\ pc = "parse_log_data"
  /\ offset = 0
  /\ record_tracks = None
  /\ header = None
  /\ records = None
  /\ total_records = 0
  /\ todo = <<>>
  /\ outcome = Pending
  /\ calls = [parse_record |-> 0, read_tag |-> 0, decoded |-> <<>>]
  /\ OthersIdle

\* parse_log_data on those inputs.
SpecDecode == InitDecode /\ [][Next]_vars

\* C21: width 1 is read as u8, width 2 as u16, width 4 as f32 unless the
\* format makes it a u32 or the hex of a u32, width 8 as u64 unless the
\* format makes it an f64, any other width N as a string of N bytes unless
\* the format makes it an array of N \div 4 floats; the field takes exactly
\* its width.
C21_DecodedByWidthAndFormat ==
  ParseEnded =>
    \A pair \in Range(calls.decoded) :
      LET keys == RecordKeyMap[pair[1]]
          at == FieldOffsets(pair[1], pair[2])
      IN \A i \in DOMAIN keys :
           keys[i] # "firmware_info" =>
             LET width == RECORD_SIZES[keys[i]]
                 read == ReadAs(DecodingOf(keys[i]), at[i], width)
                 item == parse_record_item(data, at[i], pair[1], keys[i])
             IN IF read.ok
                  THEN /\ item.ok
                       /\ item.value = read.value
                       /\ item.size = width
                       /\ item.new_offset = at[i] + width
                  ELSE item = read

\* A parse has returned an in_full record and a video record: u8, u16, f32,
\* u32, hex, u64, f64, string and float array fields have all been read.
C21_Witness ==
  /\ pc = "returned"
  /\ Len(records["in_full"]) >= 1
  /\ Len(records["video"]) >= 1
  /\ {DecodingOf(k) : k \in Range(InFullKeys) \cup Range(VideoKeys) \cup
                            (Range(HeadKeys) \ {"firmware_info"})}
       = {"u8", "u16", "f32", "u32", "hex of u32", "u64", "f64", "string",
          "float array"}

(***************************************************************************)
(* C22.  parse_record reads the fields in schema order at running offsets. *)
(***************************************************************************)
\* What reading keys[i] at its offset gives: firmware_info is a string of
\* firmware_size bytes, and the size must be more than 1.
FieldRead(record_type, key, off) ==
  IF key = "firmware_info"
    THEN IF FirmwareSizeRead > 1
           THEN read_string(data, off, FirmwareSizeRead)
           ELSE Raise(AssertionError)
    ELSE ReadAs(DecodingOf(key), off, RECORD_SIZES[key])

\* C22: parse_record(buffer, kind, offset) reads the kind's fields in schema
\* order, each at offset plus the widths of the fields before it, and
\* returns offset plus the widths of all its fields, firmware_info counting
\* as firmware_size bytes; the first field that cannot be read ends it.
C22_FieldsAtRunningOffsets ==
  ParseEnded =>
    \A pair \in Range(calls.decoded) :
      LET keys == RecordKeyMap[pair[1]]
          at == FieldOffsets(pair[1], pair[2])
          reads == [i \in DOMAIN keys |-> FieldRead(pair[1], keys[i], at[i])]
          failed == {i \in DOMAIN keys : ~reads[i].ok}
          r == parse_record(data, pair[1], pair[2])
      IN IF failed = {}
           THEN /\ r.ok
                /\ r.offset = at[Len(keys) + 1]
                /\ DOMAIN r.value = Range(keys)
                /\ \A i \in DOMAIN keys : r.value[keys[i]] = reads[i].value
           ELSE r = reads[CHOOSE i \in failed : \A j \in failed : i <= j]

\* A parse has returned two body records behind a head whose firmware_info
\* is longer than two bytes.
C22_Witness ==
  /\ pc = "returned"
  /\ total_records = 2
  /\ FirmwareSizeInData > 2
  /\ Len(records["out_full"]) = 1

(***************************************************************************)
(* C23.  The scanning loop terminates.                                     *)
(***************************************************************************)
\* The byte at the offset the scan stands at.
TagAtOffset == data[offset + 1]

\* A step taken while the scan is on: a turn of the loop raises on an
\* unknown tag or moves the offset up by the size of the kind plus 1, and
\* with the offset at or past the end of the buffer the loop is left.
ScanTurn ==
  pc = "scan" =>
    IF offset < Len(data)
      THEN \/ /\ TagAtOffset \notin DOMAIN RECORD_TYPE_MAP
              /\ pc' = "raised"
              /\ outcome'.error.type = "UnknownRecordTypeError"
              /\ offset' = offset
           \/ /\ TagAtOffset \in DOMAIN RECORD_TYPE_MAP
              /\ pc' = "scan"
              /\ offset' =
                   offset + get_total_record_size(RECORD_TYPE_MAP[TagAtOffset]) + 1
              /\ offset' > offset
      ELSE pc' # "scan"

\* Every turn having moved the offset up, the loop has taken no more turns
\* than the offset it stands at, and takes none once that is the length of
\* the buffer: it cannot go on for ever.
TurnsBounded ==
  /\ pc' = "scan" => calls'.read_tag <= offset'
  /\ calls'.read_tag <= Len(data)

\* C23: with a valid head record the scanning loop terminates: each turn
\* raises on an unknown tag or strictly increases the offset, by the kind's
\* total size plus 1, and the loop ends once offset >= len(buffer).
C23_ScanTerminates == [][ScanTurn /\ TurnsBounded]_vars

\* The loop took two turns and ended with the offset at the end of the
\* buffer.
C23_Witness ==
  /\ pc = "decode"
  /\ calls.read_tag = 2
  /\ offset >= Len(data)

(***************************************************************************)
(* C24.  How often parse_record runs on a (kind, offset) pair.             *)
(***************************************************************************)
\* How often parse_record ran on the pair so far.
TimesDecoded(pair) ==
  Cardinality({i \in DOMAIN calls.decoded : calls.decoded[i] = pair})

\* The (kind, offset) pairs of a parse: the head at its fixed offset and
\* every body record past its tag.
PairsToDecode ==
  {<<"head", HEAD_OFFSET>>}
    \cup {<<todo_[1], todo_[2] + 1>> : todo_ \in Range(DecodeOrder(record_tracks, 1))}

RecordsKept ==
  /\ (records # None /\ records' # None) =>
       \A k \in DOMAIN records :
         /\ Len(records'[k]) >= Len(records[k])
         /\ SubSeq(records'[k], 1, Len(records[k])) = records[k]
  /\ header # None => header' = header

FoundBodyRecord ==
  /\ pc = "scan" /\ pc' = "scan"
  /\ calls'.read_tag = calls.read_tag + 1
  /\ RECORD_TYPE_MAP[TagAtOffset] # "head"

\* C25: for each body record with its tag at o and of kind k, decoding k at
\* o + 1 returns the end offset o + 1 + total_size(k), and that is where the
\* scan goes on to: the offset of the next tag, or one at or past the end of
\* the buffer for the last record.
C25_ScanAndDecodeAgree ==
  [][FoundBodyRecord =>
       LET kind == RECORD_TYPE_MAP[TagAtOffset]
           end == offset + 1 + get_total_record_size(kind)
           r == parse_record(data, kind, offset + 1)
       IN /\ r.ok => r.offset = end
          /\ ~r.ok => end > Len(data) \/ r.error = UnicodeDecodeError
          /\ offset' = end
          /\ record_tracks'[kind].offsets =
               Append(record_tracks[kind].offsets, offset)]_vars

\* A parse has returned records of two kinds, one after the other.
C25_Witness ==
  /\ pc = "returned"
  /\ Len(records["in_base"]) = 1
  /\ Len(records["video"]) = 1
  /\ \E a \in Range(record_tracks["in_base"].offsets),
        b \in Range(record_tracks["video"].offsets) : Consecutive(a, b)

(***************************************************************************)
(* C26.  Where the scan reads its first tag.                               *)
(***************************************************************************)
\* The widths of the head's fields but firmware_info.
HeadStaticWidth ==
  LET Sum[i \in 0..Len(HeadKeys)] ==
        IF i = 0 THEN 0
        ELSE Sum[i - 1] + (IF HeadKeys[i] = "firmware_info" THEN 0
                           ELSE RECORD_SIZES[HeadKeys[i]])
  IN Sum[Len(HeadKeys)]

\* The offsets of the tags the scan read and filed.
TagOffsetsFound == AllOffsets \ {HEAD_OFFSET}

\* The bytes the scan stepped over from the first tag to the tag at o.
RECURSIVE SteppedOver(_)
SteppedOver(before) ==
  IF before = {} THEN 0
  ELSE LET b == CHOOSE x \in before : TRUE
       IN record_tracks[TrackOf(b)].size + 1 + SteppedOver(before \ {b})

\* C26: the scan reads its first tag at the end offset decoding the head
\* returns, the head's offset plus the widths of its static fields plus the
\* decoded firmware_size; every tag offset lies that far past where the
\* records before it put it.
C26_FirstTagPastHead ==
  record_tracks # None =>
    LET head_end == HEAD_OFFSET + HeadStaticWidth + FirmwareSizeInData
    IN /\ (pc = "scan" /\ calls.read_tag = 0) =>
            /\ offset = head_end
            /\ offset = parse_record(data, "head", HEAD_OFFSET).offset
       /\ \A o \in TagOffsetsFound :
            o = head_end + SteppedOver({b \in TagOffsetsFound : b < o})

\* A scan behind a firmware_info of five bytes has filed two tags.
C26_Witness ==
  /\ ScanComplete
  /\ FirmwareSizeInData = 5
  /\ Cardinality(TagOffsetsFound) = 2
  /\ HEAD_OFFSET + HeadStaticWidth + 5 \in TagOffsetsFound

(***************************************************************************)
(* C27.  The entries of the media cache, by path.                          *)
(***************************************************************************)
\* C27: after any calls of add_file and search, media_files holds at most
\* one entry per file path and files_by_path maps each cached path to that
\* entry.
C27_OneEntryPerPath ==
  /\ \A i, j \in DOMAIN media_files :
       i # j => media_files[i].filename # media_files[j].filename
  /\ \A path \in DOMAIN files_by_path :
       \E i \in DOMAIN media_files :
         /\ media_files[i].filename = path
         /\ files_by_path[path] = media_files[i]

\* A search with ignore_cache set has analysed a file the cache held and
\* left media_files, and the cache file, with two entries for its path.
C27_Witness ==
  /\ m_pc = "search"
  /\ m_ignore_cache
  /\ \E i, j \in DOMAIN media_files :
       i < j /\ media_files[i].filename = "a" /\ media_files[j].filename = "a"
  /\ cache_file = serialize(media_files)
  /\ files_by_path["a"] = media_files[Len(media_files)]

(***************************************************************************)
(* C29.  Records of one kind that share a timestamp.                       *)
(***************************************************************************)
\* The timestamps of the decoded records of one kind, as from_dict makes
\* them.
DecodedTimestamps(kind) ==
  {from_dict(kind, mr_parsed[kind][i]).timestamp : i \in DOMAIN mr_parsed[kind]}

\* The decoded record of one kind that comes last in file order among those
\* with a timestamp.
LastDecoded(kind, timestamp) ==
  LET dicts == mr_parsed[kind]
      last == CHOOSE i \in DOMAIN dicts :
                /\ from_dict(kind, dicts[i]).timestamp = timestamp
                /\ \A j \in DOMAIN dicts :
                     from_dict(kind, dicts[j]).timestamp = timestamp => j <= i
  IN from_dict(kind, dicts[last])

\* C29: when the decoded records are turned into the timestamp-keyed model,
\* records of one kind that share a timestamp collapse to one entry holding
\* the one that comes last in file order; the model holds, per kind, as many
\* records as there are distinct timestamps among that kind's decoded
\* records.
C29_LastOfEachTimestamp ==
  mr_records # None =>
    \A kind \in RecordKinds :
      LET dict == mr_records[kind]
      IN /\ Len(dict) = Cardinality(DecodedTimestamps(kind))
         /\ Range(DictKeys(dict)) = DecodedTimestamps(kind)
         /\ \A i \in DOMAIN dict :
              dict[i].value = LastDecoded(kind, dict[i].key)

\* Two in_full records of one timestamp were decoded and the model holds
\* one in_full record, the second of the file.
C29_Witness ==
  /\ mr_records # None
  /\ Len(mr_parsed["in_full"]) = 2
  /\ mr_parsed["in_full"][1].time = mr_parsed["in_full"][2].time
  /\ Len(mr_records["in_full"]) = 1
  /\ mr_records["in_full"][1].value.n = 2

(***************************************************************************)
(* SpecFlight: flight/flight.py, Flight.search_videos over the video items *)
(* of a flight.  The files of the search paths are those of Disk, the      *)
(* cache is the one of flight/media.py; each search of the loop is one     *)
(* step.                                                                   *)
(***************************************************************************)
MaxItems == 2

\* VideoCacheData.search with ignore_cache false, before the sort: the
\* files of the listing in turn, the cache as the search leaves it.  A file
\* that cannot be analysed ends the search with its error; what was added
\* before stays added and saved.  files_by_path is post_init(media_files)
\* throughout, a path being added only when it is not in it.
RECURSIVE search_files(_, _, _, _)
search_files(files, listing, start_time, duration) ==
  IF listing = <<>>
    THEN [ok |-> TRUE, media_files |-> files, results |-> <<>>, error |-> None]
    ELSE LET before == search_files(files, SubSeq(listing, 1, Len(listing) - 1),
                                    start_time, duration)
             path == listing[Len(listing)]
             found == cache_get(post_init(before.media_files), path, FALSE)
             media_info == parse_file(path)
             cached == IF found = None THEN media_info.value ELSE found
             confidence == calc_confidence(cached, start_time, duration)
         IN IF ~before.ok
              THEN before
              ELSE IF found = None /\ ~media_info.ok
                THEN [before EXCEPT !.ok = FALSE, !.results = <<>>,
                                    !.error = media_info.error]
                ELSE [before EXCEPT
                        !.media_files =
                           IF found = None THEN Append(@, cached) ELSE @,
                        !.results =
                           IF confidence = None THEN @
                           ELSE Append(@, [item |-> cached,
                                           search_path |-> "videos",
                                           confidence |-> confidence.some])]

\* As search, the results left in the order of the files.
search_unsorted(files, listing, start_time, duration) ==
  search_files(files, listing, start_time, duration)

\* VideoCacheData.search, search_from_flight_item
search(files, listing, start_time, duration) ==
  LET found == search_files(files, listing, start_time, duration)
  IN [found EXCEPT !.results = sort_by_confidence(@)]

\* The video items of a flight as from_parsed and deserialize make them:
\* found before ("old") or not, no frame rate known unless found.  For a
\* video of 65 seconds that starts at second 1 the file c is the best match
\* (0.8) and a and b are matches of 0.6; for one of 60 seconds that starts
\* at second 0, b is the best (0.8) and a is below the threshold (0.4).
VideoItems ==
  [filename : {"v"},
   local_filename : {None, Some("old")},
   start_time : {0, 1, 10},
   duration : {Query.duration, Query.duration + 5},
   fps : {None}]

\* What _iter_media_files yields in a run.
FlightListings ==
  {<<>>, <<"a">>, <<"a", "b">>, <<"b", "a">>, <<"b", "d">>, <<"c", "a">>,
   <<"a", "c">>,
   <<"a", "bad">>, <<"bad", "b">>}

FlightInit ==
  /\ video_items \in SeqsUpTo(VideoItems, MaxItems)
  /\ fv_before = video_items
  /\ fv_listing \in FlightListings
  /\ fv_cache = <<>>
  /\ fv_cache_file \in {None, serialize(<<parse_file("a").value>>)}
  /\ fv_pc = "idle"
  /\ fv_index = 0
  /\ fv_changed = FALSE
  /\ fv_outcome = None
  /\ NotFlightIdle

\* search_videos is called: the cache is loaded, changed = False.
SearchVideosBegin ==
  /\ fv_pc \in {"idle", "done"}
  /\ fv_cache' = IF fv_cache_file = None THEN <<>> ELSE deserialize(fv_cache_file)
  /\ fv_before' = video_items
  /\ fv_changed' = FALSE
  /\ fv_index' = 1
  /\ fv_pc' = "loop"
  /\ fv_outcome' = Pending
  /\ UNCHANGED <<video_items, fv_listing, fv_cache_file>>

\* One turn of the loop over video_items.
SearchVideosTurn ==
  /\ fv_pc = "loop"
  /\ fv_index <= Len(video_items)
  /\ LET item == video_items[fv_index]
     IN IF item.local_filename # None
          THEN /\ fv_index' = fv_index + 1
               /\ UNCHANGED <<video_items, fv_cache, fv_cache_file, fv_pc,
                              fv_changed, fv_outcome>>
          ELSE \E found \in {search(fv_cache, fv_listing, item.start_time,
                                    item.duration)} :
                 /\ fv_cache' = found.media_files
                 /\ fv_cache_file' =
                      IF found.media_files = fv_cache THEN fv_cache_file
                      ELSE serialize(found.media_files)
                 /\ IF ~found.ok
                      THEN /\ fv_pc' = "done"
                           /\ fv_outcome' = Raised(found.error)
                           /\ UNCHANGED <<video_items, fv_index, fv_changed>>
                      ELSE /\ fv_index' = fv_index + 1
                           /\ UNCHANGED <<fv_pc, fv_outcome>>
                           /\ IF found.results = <<>>
                                THEN UNCHANGED <<video_items, fv_changed>>
                                ELSE LET best == found.results[1]
                                     IN IF \/ best.confidence < 50
                                           \/ Some(best.item.filename) = item.local_filename
                                          THEN UNCHANGED <<video_items, fv_changed>>
                                          ELSE /\ video_items' =
                                                    [video_items EXCEPT ![fv_index] =
                                                       [item EXCEPT
                                                          !.local_filename = Some(best.item.filename),
                                                          !.fps = Some(best.item.fps),
                                                          !.duration = best.item.duration]]
                                               /\ fv_changed' = TRUE
  /\ UNCHANGED <<fv_before, fv_listing>>

\* The loop has ended: return changed.
SearchVideosReturn ==
  /\ fv_pc = "loop"
  /\ fv_index > Len(video_items)
  /\ fv_outcome' = Returned(fv_changed)
  /\ fv_pc' = "done"
  /\ UNCHANGED <<video_items, fv_before, fv_listing, fv_cache, fv_cache_file,
                 fv_index, fv_changed>>

FlightNext ==
  \/ SearchVideosBegin /\ UNCHANGED notFlight
  \/ SearchVideosTurn /\ UNCHANGED notFlight
  \/ SearchVideosReturn /\ UNCHANGED notFlight

SpecFlight == FlightInit /\ [][FlightNext]_vars

(***************************************************************************)
(* C28.  What search_videos changes and what it returns.                   *)
(***************************************************************************)
\* The results of the search a turn of the loop makes for an item.
ResultsFor(item) ==
  Range(search_files(fv_cache, fv_listing, item.start_time, item.duration).results)

\* A result no other result of the search has a higher confidence than.
HighestConfidence(r, results) ==
  /\ r \in results
  /\ \A other \in results : other.confidence <= r.confidence

C28_Turn ==
  (fv_pc = "loop" /\ fv_index <= Len(video_items)) =>
    LET item == video_items[fv_index]
    IN /\ \A i \in DOMAIN video_items :
            i # fv_index => video_items'[i] = video_items[i]
       /\ DOMAIN video_items' = DOMAIN video_items
       /\ item.local_filename # None => video_items' = video_items
       /\ video_items'[fv_index] # item =>
            \E best \in ResultsFor(item) :
              /\ HighestConfidence(best, ResultsFor(item))
              /\ best.confidence >= 50
              /\ video_items'[fv_index] =
                   [item EXCEPT !.local_filename = Some(best.item.filename),
                                !.fps = Some(best.item.fps),
                                !.duration = best.item.duration]
       /\ fv_changed' = (fv_changed \/ video_items' # video_items)

C28_Return ==
  (fv_pc = "loop" /\ fv_index > Len(video_items)) =>
    /\ video_items' = video_items
    /\ fv_outcome' = Returned(video_items # fv_before)

\* C28: Flight.search_videos never changes an item whose local_filename is
\* already set; it assigns local_filename, fps and duration only from the
\* highest-confidence search result and only when that confidence is at
\* least 0.5; it returns True exactly when it changed at least one item.
C28_SearchVideos == [][C28_Turn /\ C28_Return]_vars

\* search_videos has returned True over two items: the first, found before,
\* is as it was; the second has the file name, frame rate and duration of c,
\* the best of the two matches a (0.6) and c (0.8).
C28_Witness ==
  /\ fv_pc = "done"
  /\ fv_outcome = Returned(TRUE)
  /\ fv_listing = <<"a", "c">>
  /\ Len(video_items) = 2
  /\ fv_before[1].local_filename = Some("old")
  /\ video_items[1] = fv_before[1]
  /\ fv_before[2] = [filename |-> "v", local_filename |-> None, start_time |-> 1,
                     duration |-> 65, fps |-> None]
  /\ video_items[2] = [filename |-> "v", local_filename |-> Some("c"),
                       start_time |-> 1, duration |-> 70,
                       fps |-> Some(Fraction(30000, 1001))]

(***************************************************************************)
(* SpecConfig: config.py, the media search paths of a Config under calls   *)
(* of add_media_search_path.  The file system is fixed: /v and /i are      *)
(* directories, /v/f.mp4 is a file, /none does not exist.                  *)
(***************************************************************************)
MaxSearchPaths == 2

Directories == {"/v", "/i"}

\* The paths a caller passes.
PathArgs == {"/v", "/i/../v", "/i", "/v/f.mp4", "/none"}

\* Path(path).expanduser().resolve()
resolve(path) ==
  CASE path = "/i/../v" -> "/v"
    [] OTHER -> path

\* As is_dir, for a file system where every path is a directory.
is_dir_always(path) == TRUE

\* Path.is_dir
is_dir(path) == path \in Directories

MediaTypes == {"video", "image"}

MediaSearchPath(path, type, glob_pattern, recursive) ==
  [path |-> path, type |-> type, glob_pattern |-> glob_pattern,
   recursive |-> recursive]

\* Config.serialize, MediaSearchPath.serialize: the search paths (the
\* directories of the config are not touched here).
config_serialize(video, image) ==
  [video_search_paths |->
     [i \in DOMAIN video |->
        [path |-> video[i].path, type |-> video[i].type,
         glob_pattern |-> video[i].glob_pattern, recursive |-> video[i].recursive]],
   image_search_paths |->
     [i \in DOMAIN image |->
        [path |-> image[i].path, type |-> image[i].type,
         glob_pattern |-> image[i].glob_pattern, recursive |-> image[i].recursive]]]

\* The arguments of a call.
ConfigCalls ==
  [media_type : MediaTypes \cup {"audio"},
   path : PathArgs,
   glob_pattern : {None, Some("*.mp4")},
   recursive : BOOLEAN]

\* A new Config, or one loaded from a file that names /v for videos.
ConfigInit ==
  /\ video_search_paths \in
       {<<>>, <<MediaSearchPath("/v", "video", None, FALSE)>>}
  /\ image_search_paths = <<>>
  /\ config_file = IF video_search_paths = <<>> THEN None
                   ELSE config_serialize(video_search_paths, image_search_paths)
  /\ cfg_saves = 0
  /\ cfg_call = None
  /\ cfg_outcome = None
  /\ NotConfigIdle

\* add_media_search_path(media_type, path, glob_pattern, recursive)
AddMediaSearchPath ==
  /\ \E call \in ConfigCalls :
       LET path == resolve(call.path)
           sp == MediaSearchPath(path, call.media_type, call.glob_pattern,
                                 call.recursive)
           paths == IF call.media_type = "video" THEN video_search_paths
                    ELSE image_search_paths
       IN /\ cfg_call' = call
          /\ IF ~is_dir(path)
               THEN /\ cfg_outcome' = Raised(ValueError("is not a directory"))
                    /\ UNCHANGED <<video_search_paths, image_search_paths,
                                   config_file, cfg_saves>>
               ELSE IF call.media_type \notin MediaTypes
                 THEN /\ cfg_outcome' = Raised(ValueError("Invalid media type"))
                      /\ UNCHANGED <<video_search_paths, image_search_paths,
                                     config_file, cfg_saves>>
                 ELSE IF sp \in Range(paths)
                   THEN /\ cfg_outcome' =
                             Raised(ValueError("is already in the config"))
                        /\ UNCHANGED <<video_search_paths, image_search_paths,
                                       config_file, cfg_saves>>
                   ELSE /\ video_search_paths' =
                             IF call.media_type = "video"
                               THEN Append(video_search_paths, sp)
                               ELSE video_search_paths
                        /\ image_search_paths' =
                             IF call.media_type = "image"
                               THEN Append(image_search_paths, sp)
                               ELSE image_search_paths
                        /\ config_file' = config_serialize(video_search_paths',
                                                           image_search_paths')
                        /\ cfg_saves' = cfg_saves + 1
                        /\ cfg_outcome' = Returned(sp)
  /\ Len(video_search_paths') + Len(image_search_paths') <= MaxSearchPaths

ConfigNext ==
  \/ AddMediaSearchPath /\ UNCHANGED notConfig

SpecConfig == ConfigInit /\ [][ConfigNext]_vars

(***************************************************************************)
(* C30.  What add_media_search_path does with a duplicate, and otherwise.  *)
(***************************************************************************)
\* The search path a call is for, and the list of its media type.
CalledSearchPath(call) ==
  MediaSearchPath(resolve(call.path), call.media_type, call.glob_pattern,
                  call.recursive)

ListOf(media_type) ==
  IF media_type = "video" THEN video_search_paths ELSE image_search_paths

\* The call raised, both lists are as they were and nothing was saved.
RaisedUnchanged ==
  /\ cfg_outcome'.state = "raised"
  /\ UNCHANGED <<video_search_paths, image_search_paths, config_file, cfg_saves>>

\* The call appended its search path to the list of its type only, and saved.
AppendedAndSaved(call) ==
  /\ cfg_outcome' = Returned(CalledSearchPath(call))
  /\ video_search_paths' =
       IF call.media_type = "video"
         THEN Append(video_search_paths, CalledSearchPath(call))
         ELSE video_search_paths
  /\ image_search_paths' =
       IF call.media_type = "image"
         THEN Append(image_search_paths, CalledSearchPath(call))
         ELSE image_search_paths
  /\ cfg_saves' = cfg_saves + 1
  /\ config_file' = config_serialize(video_search_paths', image_search_paths')

\* The claim as the specification states it, for the two media types: a
\* call for a duplicate raises and changes nothing, every other call appends
\* and saves.
C30_DuplicateOrAppend ==
  [][cfg_call'.media_type \in MediaTypes =>
       IF CalledSearchPath(cfg_call') \in Range(ListOf(cfg_call'.media_type))
         THEN RaisedUnchanged
         ELSE AppendedAndSaved(cfg_call')]_vars

\* C30: add_media_search_path raises, leaves both lists unchanged and does
\* not save when the resolved path is not a directory, when the media type
\* is neither video nor image, or when the search path (resolved path, type,
\* glob pattern, recursive flag) is already in the list of that media type;
\* otherwise it appends exactly one entry to that list only, and saves.
C30_RaiseOrAppend ==
  [][IF \/ resolve(cfg_call'.path) \notin Directories
        \/ cfg_call'.media_type \notin MediaTypes
        \/ CalledSearchPath(cfg_call') \in Range(ListOf(cfg_call'.media_type))
       THEN RaisedUnchanged
       ELSE AppendedAndSaved(cfg_call')]_vars

\* /v is configured for videos; a call for images with the same path has
\* appended to the image list and saved; then a call for videos with a path
\* that resolves to /v has raised, the lists and the file as they were.
C30_Witness ==
  /\ cfg_call = [media_type |-> "video", path |-> "/i/../v",
                 glob_pattern |-> None, recursive |-> FALSE]
  /\ cfg_outcome = Raised(ValueError("is already in the config"))
  /\ video_search_paths = <<MediaSearchPath("/v", "video", None, FALSE)>>
  /\ image_search_paths = <<MediaSearchPath("/v", "image", None, FALSE)>>
  /\ cfg_saves = 1
  /\ config_file = config_serialize(video_search_paths, image_search_paths)
=============================================================================
